---- MODULE Spec2Model ----
(***************************************************************************)
(* URL shortener: the Snowflake ID generator, the Bloom-filter membership  *)
(* index, the in-memory store, the hash-based and the Snowflake-based      *)
(* shortening strategies and the URLShortener context, as a state machine. *)
(*                                                                         *)
(* Strings are real strings.  The library digests (hashlib.md5,            *)
(* hashlib.sha1, zlib.crc32, builtin hash) cannot be computed in TLA+; they *)
(* are tables of the values CPython 3.11 returns, over the finite universe *)
(* of strings the bounded model can touch (tables/gen_tables.py writes     *)
(* them).  Everything the repository itself computes (slicing, the salt    *)
(* loop, "% size", bit packing, base 62) is computed here, on those values.*)
(***************************************************************************)
EXTENDS Integers, Sequences, FiniteSets, TLC

(* ------------------------------ bounds -------------------------------- *)

\* operations a run starts after Init
MaxCalls == 3
\* largest millisecond the clock reaches
MaxTime == 3
\* base62_encode is applied to every integer in 0..MaxNum
MaxNum == 130

(* ------------------------- program constants -------------------------- *)

\* width of the sequence field: (timestamp << 12) | sequence
SeqBits == 12
\* SimpleBloomFilter(size=10000), the size InMemoryDB constructs
BloomSize == 10000
\* hashed[:7]
CodeLen == 7
\* divmod(num, 62)
Radix == 62
\* int(hexdigest, 16)
HexRadix == 16

\* db.get(short_url, None)
None == "None"
\* the salt of the collision loop: short += "unique"
Salt == "unique"

UrlA == "https://example.com/422572"
UrlB == "https://example.com/79469"
\* the long URLs callers shorten; md5(UrlA) and md5(UrlB) share their first 7
\* symbols, crc32(UrlA) < 16^6 and crc32(UrlB) >= 16^7
Targets == {UrlA, UrlB}

\* HashShortener(method=...): "sha256" is a name _hash does not recognise
Methods == {"md5", "sha1", "crc32", "sha256"}
Snow == "snowflake"
\* the strategy handles a URLShortener can hold
Strategies == Methods \cup {Snow}

\* PYTHONHASHSEED of the process: str hashes differ from process to process
HashSeeds == {0, 1}

(* ------------------------------ tables -------------------------------- *)

\* BEGIN TABLES
(* hashlib.md5(s.encode()).hexdigest() *)
Md5Table ==
    ("https://example.com/422572" :> "658d342b8afa80330814ae475cff8d05") @@
    ("https://example.com/79469" :> "658d342626f5a00ec6c3fb656dbe8010") @@
    ("658d342unique" :> "10321d01752b22b35454c20f4c3f67d5") @@
    ("10321d0unique" :> "25e529e0296a2f16a4c42bbdc467ca8b") @@
    ("25e529eunique" :> "1710147b260323fc51015eb421c6fb5d") @@
    ("1710147unique" :> "d42cce0e6e469c85a016522776140156") @@
    ("d42cce0unique" :> "b95573a760c7b7ef6072041d97829f29") @@
    ("b95573aunique" :> "c85c662d0bb101aa550d472f92e2bfad") @@
    ("c85c662unique" :> "0802bf1c1bc0783ad05b0b7294bd1006") @@
    ("0802bf1unique" :> "69a3bab22d60e7f3ebcf633630990650") @@
    ("92249dfunique" :> "8f730a442f8aa8096a9e82db0d618642") @@
    ("8f730a4unique" :> "670eadb0b8ea82544bef3c396ab32e7b") @@
    ("670eadbunique" :> "7120516c72ff7c62b8425e900956cba6") @@
    ("7120516unique" :> "fc4485b2bff6d79fd6d70baa4764c9e1") @@
    ("fc4485bunique" :> "89aeb3da89c0e09f45cd64d720a03f5b") @@
    ("89aeb3dunique" :> "2236b79ab988b1a7a2b47c6ec24e23ed") @@
    ("2236b79unique" :> "b4eccc909aad5fbca7a9fd4fd7575a5a") @@
    ("b4eccc9unique" :> "77cebc43b576b0e3334fc340c1252fea") @@
    ("9d0a04unique" :> "94ea1d10ea08e2584c92f6262e59cbd2") @@
    ("94ea1d1unique" :> "833fec4d548d18459f5e63395cc201f0") @@
    ("833fec4unique" :> "a1afd4fae492d53c8b241ff906065f93") @@
    ("a1afd4funique" :> "634167ec7c425e4cc8d9aa72adaea5a8") @@
    ("634167eunique" :> "6ca249d1ffe8232f3df1fbc9a1189181") @@
    ("6ca249dunique" :> "bc16f30115122a7ff568a5120ac166b9") @@
    ("bc16f30unique" :> "81e2110d062170466136ab5c0ef54c16") @@
    ("81e2110unique" :> "48e26852c03f24329c132a7e74fa8574") @@
    ("8fa7a83unique" :> "10e80923743cbf7432c6895b3dba1add") @@
    ("10e8092unique" :> "4f65af815f7e18474f3b16e2cf794a33") @@
    ("4f65af8unique" :> "28ec88b530a6947b24afe10cf8035d66") @@
    ("28ec88bunique" :> "171f0debc0449d4258ca23efd7b022a3") @@
    ("171f0deunique" :> "eaca0036af0c1d59fca73fa9fee8809b") @@
    ("eaca003unique" :> "74f565d447c79685ad02140da7b211fb") @@
    ("74f565dunique" :> "7755515c4dccf3e98c0e621322e6c0a8") @@
    ("7755515unique" :> "e57708e29c5693c14b624769969ee5e2") @@
    ("cad98bbunique" :> "2e21208a53a8ca47cf45583d27d64601") @@
    ("2e21208unique" :> "82f746a57576bff156e3ce14b2fc07a6") @@
    ("82f746aunique" :> "74fc8d51043397b1187eb312db18a811") @@
    ("74fc8d5unique" :> "3bc64401f8cc0b3c0f5859f95c2793d6") @@
    ("3bc6440unique" :> "9b74dadfc636bdc49f86d3b37e0047b7") @@
    ("9b74dadunique" :> "afe633ced208a98e27a8bc2921345ef7") @@
    ("afe633cunique" :> "3145f80b6e716c99a52069253c478934") @@
    ("3145f80unique" :> "9d89102bdf523a3ca3252cf1f885d385") @@
    ("658d342" :> "de18f0d95763acece4610d7303f3c393") @@
    ("10321d0" :> "8fdd664dbf7aa33782b271b5febefaf3") @@
    ("25e529e" :> "431b8848ac20335b987ed0c281bdb7e0") @@
    ("1710147" :> "b630f471c5f07462b328fdcb16aa5625") @@
    ("d42cce0" :> "e7a5c69d5d60792888a0c45c5cc9816e") @@
    ("b95573a" :> "4e436060e440b596831a1f73c652c88e") @@
    ("c85c662" :> "ff2e95167bb26f8b887cb684e324acf2") @@
    ("0802bf1" :> "0ebaca9fa403f843c99d86b1d73cd18e") @@
    ("69a3bab" :> "239135599c794e466ba62b720ccbe77c") @@
    ("92249df" :> "c7f1c255c75d4b788d7eb2f18ef2c2d2") @@
    ("8f730a4" :> "04fc7750d8f66b0689dbf246f68f33a7") @@
    ("670eadb" :> "2dc4624566a7ede9ffc890dbec3e4c4e") @@
    ("7120516" :> "e1a70b418d804e7762964e19242e7c32") @@
    ("fc4485b" :> "59edeedb706b432a843d31fa89ae3dee") @@
    ("89aeb3d" :> "4643201b2a44b7f02e979532bb66a497") @@
    ("2236b79" :> "7219135fad6ce1560cce5cdabca85f19") @@
    ("b4eccc9" :> "cc2da6986db3f7e9ab513cdbc68c51a1") @@
    ("77cebc4" :> "06fcb37f5ff92b5d2abda712d7aab71d") @@
    ("9d0a04" :> "d56f8bd3fecb09199a0d949855e889bf") @@
    ("94ea1d1" :> "b7968caa5de32bb91162e85a17e3fee3") @@
    ("833fec4" :> "88d5d6f8ed515424cdde6519c8b72884") @@
    ("a1afd4f" :> "237d2c28232e86bc6f47693820fefe31") @@
    ("634167e" :> "bdcfeaed9bd279e144d6802332e253ed") @@
    ("6ca249d" :> "c074a7b554aa229d2732fee2da319bd6") @@
    ("bc16f30" :> "bf69efc9c79ea662216e8b300fb19a59") @@
    ("81e2110" :> "dd8e540c07c3addec0efc4a5d972e73d") @@
    ("48e2685" :> "d8a90078dc1674d5a5fb35ad81d02317") @@
    ("8fa7a83" :> "896de8bb3a192a367cbea6a8b807577c") @@
    ("10e8092" :> "df1e2a2ae61f65441e461bf9c6cae7cd") @@
    ("4f65af8" :> "6ec4e33c4c3b7fa8c4909f269596516b") @@
    ("28ec88b" :> "910d7430e20af4e886e13e31d7330a6b") @@
    ("171f0de" :> "ea134a978ae6b4570ab98b1bc4d480c4") @@
    ("eaca003" :> "06f613f25dc3d8ff5dc227065dc29d40") @@
    ("74f565d" :> "86359f1fc3a7529bb89f697c07005730") @@
    ("7755515" :> "88400619482aaa82d8a1791d9b7860c2") @@
    ("e57708e" :> "14f8bacdf54d5d863ad8fde6d63b655b") @@
    ("cad98bb" :> "5b926bca064b1cbdff29c205cd065ab1") @@
    ("2e21208" :> "7aac5a494f2295612fec0701ce50f89e") @@
    ("82f746a" :> "75b0de4a61eb3eb66cbdfd7bb215bde2") @@
    ("74fc8d5" :> "92c0e648a079e048bccb99089ff77c2f") @@
    ("3bc6440" :> "84be29250b15db336fcf8b168bdab893") @@
    ("9b74dad" :> "96032b7f689d3faf97c292ce0addc8fd") @@
    ("afe633c" :> "2f1f8e6a69ecae7f980a04d71955908a") @@
    ("3145f80" :> "34d993c084cfa82745e8fb214dddaf07") @@
    ("9d89102" :> "9cc715e323f31516c4b2034360dc663e") @@
    ("abc123" :> "e99a18c428cb38d5f260853678922e03") @@
    ("AKLw" :> "edf95c3b7fc893bf6af4415b012bcd25") @@
    ("HU" :> "35b5282113b88c2fe23dcbec9f0258c1") @@
    ("144" :> "0a09c8844ba8f0936c20bd791130d6b6") @@
    ("145" :> "2b24d495052a8ce66358eb576b8912c8") @@
    ("146" :> "a5e00132373a7031000fd987a3c9f87b") @@
    ("147" :> "8d5e957f297893487bd98fa830fa6413") @@
    ("148" :> "47d1e990583c9c67424d369f3414728e") @@
    ("149" :> "f2217062e9a397a1dca429e7d70bc6ca") @@
    ("14a" :> "56c968ba413527105d0ab942f3363a9e") @@
    ("14b" :> "b3fbb9b47283b0ca35c0a1b25a161a30") @@
    ("14c" :> "4d0c5af710fb34ba9877183bf7e05b15") @@
    ("14d" :> "9f090cd0e4880a062d9ffff7de48b604") @@
    ("14e" :> "979144252f0ff2369e5c0f265e71b53c") @@
    ("282" :> "6a9aeddfc689c1d0e3b9ccc3ab651bc5") @@
    ("283" :> "0f49c89d1e7298bb9930789c8ed59d48") @@
    ("284" :> "46ba9f2a6976570b0353203ec4474217") @@
    ("285" :> "0e01938fc48a2cfb5f2217fbfb00722d") @@
    ("286" :> "16a5cdae362b8d27a1d8f8c7b78b4330") @@
    ("287" :> "918317b57931b6b7a7d29490fe5ec9f9") @@
    ("288" :> "48aedb8880cab8c45637abc7493ecddd") @@
    ("289" :> "839ab46820b524afda05122893c2fe8e") @@
    ("28a" :> "191d265f565c43a94aee148f925c4811") @@
    ("28b" :> "110947219f7935a3082cb17064564cfb") @@
    ("28c" :> "69ab78778e5475cabddf1da9e3708a3d") @@
    ("28d" :> "08a641013301b0c0294304b3e7b2f45c") @@
    ("28e" :> "2a053dbfd231e20838efbd904d02a746") @@
    ("28f" :> "fc2ffb1c8ebc32cd87c795a4e310d2bf") @@
    ("28g" :> "01f3497a552d5a9b08db16c16b0745bf") @@
    ("28h" :> "05e5a974c3645d7849b439c8e5a11b40") @@
    ("28i" :> "3a3a364f14bd03b4367968d4986d391c") @@
    ("3c6" :> "3d4c78ce13a8942a030f0e068bc291a9") @@
    ("3c7" :> "cd3babe3fa080c625b35c139c588c522") @@
    ("3c8" :> "f1f8047f32e9774835037cb02e55f1de") @@
    ("3c9" :> "d9b88725d0e719bad8fe8ed59e0fd463") @@
    ("3ca" :> "e863bda06ae03910640f9382a6ec7fe6") @@
    ("3cb" :> "33ea2a5e212ab720e2aa929f17630ca7") @@
    ("3cc" :> "d4fba90f641f82e5063b8d2587f123dc") @@
    ("3cd" :> "721002e45ce8fc58e4bd08b19b89a38c") @@
    ("3ce" :> "7cc45b045c2c28f5f1950c68267e1c1c") @@
    ("3cf" :> "2c6c19c265694c742712a8cc82e52356") @@
    ("3cg" :> "55750d044fe16e55cac28fb579b09992") @@
    ("3ch" :> "c774850af125a2d9bdd1b61f90efe2b6") @@
    ("3ci" :> "914c9c18be6bb0314242c6836c7e06f1") @@
    ("3cj" :> "dc32b2f45b6ae619273ac6eb3e1c323e") @@
    ("3ck" :> "03c3d992f73f17a9d71687d95e93b6a7") @@
    ("3cl" :> "b441485b89c848495fabccf3962afaa7") @@
    ("3cm" :> "8587beaf3443603187e6ff8ebec5b1b1") @@
    ("4gg" :> "1366eedba1426d6be6ea62a69fa417cf") @@
    ("4gh" :> "cdc30697368bebda30adaa5b1af10143") @@
    ("4gi" :> "1bebea6af48da8d945f474d190b8fec7") @@
    ("4gj" :> "ce1276dc108461a27a13094b5da28b71") @@
    ("4gk" :> "e6082fc4fded71fc85b95bd33cdd624f") @@
    ("4gl" :> "a483fbab890b2838e65c3a0673e2c442") @@
    ("4gm" :> "6d1728e5b005944d91fd3431b3f5123e") @@
    ("4gn" :> "d4c612c789974c6f92388cc8a1d6bc81") @@
    ("4go" :> "f643f7c8189eaf25c3a8472ea077fb8d") @@
    ("4gp" :> "1f44ee8d689b7cc2d6d83b5a96d898f5") @@
    ("4gq" :> "ef4e151a0bf16dd347dd4b9fcf38e4d5") @@
    ("5kk" :> "5258879f781ffbd8b57e153c44689e2a") @@
    ("5kl" :> "0f596973afabca1d04346b13694b8f32") @@
    ("5km" :> "0070dcc38bdccd4f25e9d64e6f3018e6") @@
    ("5kn" :> "917ab50b0d3d0c04ae5d1ae1da32e1a5") @@
    ("5ko" :> "9adcc1dac54c16271f16ad2a1003b9d6") @@
    ("5kp" :> "d9e06fbe9c0999d839eb15eeced6c651") @@
    ("5kq" :> "b7a9a77ae0a9f87e605a2b80e3b0dca4") @@
    ("5kr" :> "d1ead745709506773cbdce29fca5d7c0") @@
    ("5ks" :> "49272bbe60db86abf24ec8b0c2bd643a") @@
    ("5kt" :> "ed7abd57f684064c4bca632de3fc94cf") @@
    ("5ku" :> "b5cba8ff3bd797894ae2bf72a2eb78e3")

(* hashlib.sha1(s.encode()).hexdigest() *)
Sha1Table ==
    ("https://example.com/422572" :> "92249dfc6100dad67b1de87e26b2a317630e34a0") @@
    ("https://example.com/79469" :> "8fa7a83076f49d096df742a346f9995a2e4eca90")

(* format(zlib.crc32(s.encode()), "x") *)
Crc32Table ==
    ("https://example.com/422572" :> "9d0a04") @@ ("https://example.com/79469" :> "cad98bb3") @@
    ("658d342" :> "72adb3a5") @@ ("10321d0" :> "294095e1") @@
    ("25e529e" :> "74b32426") @@ ("1710147" :> "c053f645") @@
    ("d42cce0" :> "fbce9b0f") @@ ("b95573a" :> "e3fe2c59") @@
    ("c85c662" :> "ee643a0a") @@ ("0802bf1" :> "f0fa415") @@
    ("69a3bab" :> "a76f551d") @@ ("92249df" :> "c377a998") @@
    ("8f730a4" :> "50eba016") @@ ("670eadb" :> "941c874") @@
    ("7120516" :> "3f0336bd") @@ ("fc4485b" :> "fb77dc0f") @@
    ("89aeb3d" :> "78d8e4dd") @@ ("2236b79" :> "5cb29ffa") @@
    ("b4eccc9" :> "3daba2cc") @@ ("77cebc4" :> "1f8aaa84") @@
    ("9d0a04" :> "b9c9bdbb") @@ ("94ea1d1" :> "98d23321") @@
    ("833fec4" :> "5dbaeedb") @@ ("a1afd4f" :> "95b1ee63") @@
    ("634167e" :> "453e1756") @@ ("6ca249d" :> "41f63982") @@
    ("bc16f30" :> "d8cc2b03") @@ ("81e2110" :> "71b90ed") @@
    ("48e2685" :> "4353f212") @@ ("8fa7a83" :> "f0b93a13") @@
    ("10e8092" :> "117767ec") @@ ("4f65af8" :> "a4c92265") @@
    ("28ec88b" :> "aca346b2") @@ ("171f0de" :> "1029a180") @@
    ("eaca003" :> "9ebf4f4d") @@ ("74f565d" :> "76cc75b2") @@
    ("7755515" :> "f5ada838") @@ ("e57708e" :> "60844210") @@
    ("cad98bb" :> "db048e26") @@ ("2e21208" :> "b9743e5d") @@
    ("82f746a" :> "a4175def") @@ ("74fc8d5" :> "2df805b1") @@
    ("3bc6440" :> "f498ea17") @@ ("9b74dad" :> "f0040695") @@
    ("afe633c" :> "ec6f2533") @@ ("3145f80" :> "258999a9") @@
    ("9d89102" :> "1db8de0b") @@ ("abc123" :> "cf02bb5c") @@
    ("AKLw" :> "ec8e66f3") @@ ("HU" :> "62787289") @@
    ("144" :> "407651f7") @@ ("145" :> "37716161") @@
    ("146" :> "ae7830db") @@ ("147" :> "d97f004d") @@
    ("148" :> "49c01ddc") @@ ("149" :> "3ec72d4a") @@
    ("14a" :> "5b77f48c") @@ ("14b" :> "c27ea536") @@
    ("14c" :> "b57995a0") @@ ("14d" :> "2b1d0003") @@
    ("14e" :> "5c1a3095") @@ ("282" :> "7e60597") @@
    ("283" :> "70e13501") @@ ("284" :> "ee85a0a2") @@
    ("285" :> "99829034") @@ ("286" :> "8bc18e") @@
    ("287" :> "778cf118") @@ ("288" :> "e733ec89") @@
    ("289" :> "9034dc1f") @@ ("28a" :> "f58405d9") @@
    ("28b" :> "6c8d5463") @@ ("28c" :> "1b8a64f5") @@
    ("28d" :> "85eef156") @@ ("28e" :> "f2e9c1c0") @@
    ("28f" :> "6be0907a") @@ ("28g" :> "1ce7a0ec") @@
    ("28h" :> "8c58bd7d") @@ ("28i" :> "fb5f8deb") @@
    ("3c6" :> "58062f26") @@ ("3c7" :> "2f011fb0") @@
    ("3c8" :> "bfbe0221") @@ ("3c9" :> "c8b932b7") @@
    ("3ca" :> "ad09eb71") @@ ("3cb" :> "3400bacb") @@
    ("3cc" :> "43078a5d") @@ ("3cd" :> "dd631ffe") @@
    ("3ce" :> "aa642f68") @@ ("3cf" :> "336d7ed2") @@
    ("3cg" :> "446a4e44") @@ ("3ch" :> "d4d553d5") @@
    ("3ci" :> "a3d26343") @@ ("3cj" :> "3adb32f9") @@
    ("3ck" :> "4ddc026f") @@ ("3cl" :> "d3b897cc") @@
    ("3cm" :> "a4bfa75a") @@ ("4gg" :> "25499dc5") @@
    ("4gh" :> "b5f68054") @@ ("4gi" :> "c2f1b0c2") @@
    ("4gj" :> "5bf8e178") @@ ("4gk" :> "2cffd1ee") @@
    ("4gl" :> "b29b444d") @@ ("4gm" :> "c59c74db") @@
    ("4gn" :> "5c952561") @@ ("4go" :> "2b9215f7") @@
    ("4gp" :> "a69a1802") @@ ("4gq" :> "d19d2894") @@
    ("5kk" :> "8188f4d5") @@ ("5kl" :> "1fec6176") @@
    ("5km" :> "68eb51e0") @@ ("5kn" :> "f1e2005a") @@
    ("5ko" :> "86e530cc") @@ ("5kp" :> "bed3d39") @@
    ("5kq" :> "7cea0daf") @@ ("5kr" :> "e5e35c15") @@
    ("5ks" :> "92e46c83") @@ ("5kt" :> "c80f920") @@
    ("5ku" :> "7b87c9b6")

(* hash(s) of a process started with PYTHONHASHSEED=0: sign and magnitude *)
PyHashTable0 ==
    ("658d342" :> [neg |-> FALSE, hex |-> "454534b030b25bb1"]) @@
    ("10321d0" :> [neg |-> TRUE, hex |-> "7793a4684d5a0bc0"]) @@
    ("25e529e" :> [neg |-> FALSE, hex |-> "5c9899ba8258587c"]) @@
    ("1710147" :> [neg |-> FALSE, hex |-> "2806545257c73691"]) @@
    ("d42cce0" :> [neg |-> TRUE, hex |-> "51a26bd74e9f391f"]) @@
    ("b95573a" :> [neg |-> FALSE, hex |-> "5afb8e30e702cfbf"]) @@
    ("c85c662" :> [neg |-> FALSE, hex |-> "7deabf5c0e8d0b15"]) @@
    ("0802bf1" :> [neg |-> TRUE, hex |-> "79571c31bc8cce31"]) @@
    ("69a3bab" :> [neg |-> TRUE, hex |-> "908267dc90d6275"]) @@
    ("92249df" :> [neg |-> TRUE, hex |-> "3fbdf24c181ad99c"]) @@
    ("8f730a4" :> [neg |-> TRUE, hex |-> "789ab27f0025c77b"]) @@
    ("670eadb" :> [neg |-> FALSE, hex |-> "67023e95b10eaabf"]) @@
    ("7120516" :> [neg |-> TRUE, hex |-> "8f9ffff3f31323b"]) @@
    ("fc4485b" :> [neg |-> FALSE, hex |-> "5c73c61d6e7ee71c"]) @@
    ("89aeb3d" :> [neg |-> FALSE, hex |-> "70d15084e50d4424"]) @@
    ("2236b79" :> [neg |-> FALSE, hex |-> "6ad5075907c0273d"]) @@
    ("b4eccc9" :> [neg |-> FALSE, hex |-> "4579d27daf8d1250"]) @@
    ("77cebc4" :> [neg |-> TRUE, hex |-> "3f4a00cde33a2516"]) @@
    ("9d0a04" :> [neg |-> FALSE, hex |-> "e8fea3c0e03e15f"]) @@
    ("94ea1d1" :> [neg |-> TRUE, hex |-> "432b35281c604563"]) @@
    ("833fec4" :> [neg |-> TRUE, hex |-> "6272022abd0b50cb"]) @@
    ("a1afd4f" :> [neg |-> FALSE, hex |-> "576fbd2cc7cb0e3e"]) @@
    ("634167e" :> [neg |-> FALSE, hex |-> "50c87db855bcf2d7"]) @@
    ("6ca249d" :> [neg |-> TRUE, hex |-> "13406e2f0b86e811"]) @@
    ("bc16f30" :> [neg |-> TRUE, hex |-> "5dd4d34020367b0c"]) @@
    ("81e2110" :> [neg |-> TRUE, hex |-> "6452d8c52839eb78"]) @@
    ("48e2685" :> [neg |-> FALSE, hex |-> "3139aa75a0abddb1"]) @@
    ("8fa7a83" :> [neg |-> TRUE, hex |-> "40215d03b9fd7eb2"]) @@
    ("10e8092" :> [neg |-> TRUE, hex |-> "5fb4bd09ceec6770"]) @@
    ("4f65af8" :> [neg |-> FALSE, hex |-> "6b7a51d358f1b59c"]) @@
    ("28ec88b" :> [neg |-> TRUE, hex |-> "6bbc26228b0a59cb"]) @@
    ("171f0de" :> [neg |-> TRUE, hex |-> "2e02e91e62d13e1b"]) @@
    ("eaca003" :> [neg |-> TRUE, hex |-> "ab43f7dc9a26d56"]) @@
    ("74f565d" :> [neg |-> FALSE, hex |-> "30f1f173a6c3db6f"]) @@
    ("7755515" :> [neg |-> TRUE, hex |-> "50c1dd652b29c085"]) @@
    ("e57708e" :> [neg |-> TRUE, hex |-> "19b3cac411f2e30c"]) @@
    ("cad98bb" :> [neg |-> TRUE, hex |-> "14a6963638b82012"]) @@
    ("2e21208" :> [neg |-> TRUE, hex |-> "272a5d86c83003e3"]) @@
    ("82f746a" :> [neg |-> FALSE, hex |-> "1ea8f9469ee70ed5"]) @@
    ("74fc8d5" :> [neg |-> TRUE, hex |-> "2b0fbb793bc4e286"]) @@
    ("3bc6440" :> [neg |-> TRUE, hex |-> "1acfe1f6c549904c"]) @@
    ("9b74dad" :> [neg |-> FALSE, hex |-> "5be7beb0bb22790"]) @@
    ("afe633c" :> [neg |-> TRUE, hex |-> "43f0a1332513f89f"]) @@
    ("3145f80" :> [neg |-> FALSE, hex |-> "55df09a97fffb2a9"]) @@
    ("9d89102" :> [neg |-> TRUE, hex |-> "33eb5afc9c4f9db8"]) @@
    ("abc123" :> [neg |-> FALSE, hex |-> "22f7bf6265430d76"]) @@
    ("AKLw" :> [neg |-> FALSE, hex |-> "7431fbaa1dae4a35"]) @@
    ("HU" :> [neg |-> FALSE, hex |-> "2cba20fb7b4c6fda"]) @@
    ("144" :> [neg |-> TRUE, hex |-> "bc28ef83374314e"]) @@
    ("145" :> [neg |-> TRUE, hex |-> "70adc09704263655"]) @@
    ("146" :> [neg |-> FALSE, hex |-> "547c298b9ce0a829"]) @@
    ("147" :> [neg |-> TRUE, hex |-> "3f1770a66b0c40cf"]) @@
    ("148" :> [neg |-> TRUE, hex |-> "636fea0bf26b4d9a"]) @@
    ("149" :> [neg |-> FALSE, hex |-> "4a58dc0012dc49e1"]) @@
    ("14a" :> [neg |-> TRUE, hex |-> "672e13ccae4ed65b"]) @@
    ("14b" :> [neg |-> TRUE, hex |-> "61caae8392cf743e"]) @@
    ("14c" :> [neg |-> FALSE, hex |-> "1866c7df17d9e485"]) @@
    ("14d" :> [neg |-> FALSE, hex |-> "40d5e73a04c19b66"]) @@
    ("14e" :> [neg |-> FALSE, hex |-> "463aad44deceb208"]) @@
    ("282" :> [neg |-> FALSE, hex |-> "3f1faf33a2bf0bc4"]) @@
    ("283" :> [neg |-> FALSE, hex |-> "495b67c632945e79"]) @@
    ("284" :> [neg |-> FALSE, hex |-> "1e26726f3a9e1fe9"]) @@
    ("285" :> [neg |-> TRUE, hex |-> "3e8e03df0b130f23"]) @@
    ("286" :> [neg |-> FALSE, hex |-> "7abe9963bb5a77c"]) @@
    ("287" :> [neg |-> TRUE, hex |-> "698db9f2b04498f5"]) @@
    ("288" :> [neg |-> TRUE, hex |-> "14647ef44072e529"]) @@
    ("289" :> [neg |-> FALSE, hex |-> "22a924f1f529f2e7"]) @@
    ("28a" :> [neg |-> FALSE, hex |-> "2104ee938917cccf"]) @@
    ("28b" :> [neg |-> FALSE, hex |-> "2d0f670a60f64578"]) @@
    ("28c" :> [neg |-> TRUE, hex |-> "3e576186f75e6bb2"]) @@
    ("28d" :> [neg |-> TRUE, hex |-> "20549f800dd9a33"]) @@
    ("28e" :> [neg |-> TRUE, hex |-> "3c8ca11f8340bb1a"]) @@
    ("28f" :> [neg |-> TRUE, hex |-> "6a78d3ed00aa632f"]) @@
    ("28g" :> [neg |-> FALSE, hex |-> "45f032c230b93cda"]) @@
    ("28h" :> [neg |-> FALSE, hex |-> "234fceba755cc50c"]) @@
    ("28i" :> [neg |-> TRUE, hex |-> "76a977cab25ba87c"]) @@
    ("3c6" :> [neg |-> TRUE, hex |-> "3e1ff4124add06be"]) @@
    ("3c7" :> [neg |-> TRUE, hex |-> "a9666c74f8d911e"]) @@
    ("3c8" :> [neg |-> FALSE, hex |-> "4f2d04c5a99d6681"]) @@
    ("3c9" :> [neg |-> TRUE, hex |-> "55d30f274d4c81d4"]) @@
    ("3ca" :> [neg |-> FALSE, hex |-> "b690b5c87f4de0e"]) @@
    ("3cb" :> [neg |-> TRUE, hex |-> "17727573ae03c6c"]) @@
    ("3cc" :> [neg |-> TRUE, hex |-> "6ca66106fb49a280"]) @@
    ("3cd" :> [neg |-> TRUE, hex |-> "3df8a0392ca6837a"]) @@
    ("3ce" :> [neg |-> TRUE, hex |-> "42cbfa4ca926bc3b"]) @@
    ("3cf" :> [neg |-> TRUE, hex |-> "4344ea5a5528848a"]) @@
    ("3cg" :> [neg |-> TRUE, hex |-> "1efbcf8d75a6fc3"]) @@
    ("3ch" :> [neg |-> TRUE, hex |-> "232fdbd7466f9eab"]) @@
    ("3ci" :> [neg |-> TRUE, hex |-> "1121d85fcb878a54"]) @@
    ("3cj" :> [neg |-> FALSE, hex |-> "3508de4cee0a483f"]) @@
    ("3ck" :> [neg |-> FALSE, hex |-> "9a242308e0c9944"]) @@
    ("3cl" :> [neg |-> TRUE, hex |-> "27cf4b12d42dc585"]) @@
    ("3cm" :> [neg |-> TRUE, hex |-> "55afe4e8cddb7127"]) @@
    ("4gg" :> [neg |-> TRUE, hex |-> "5458255a0260365c"]) @@
    ("4gh" :> [neg |-> FALSE, hex |-> "52da05230896160"]) @@
    ("4gi" :> [neg |-> FALSE, hex |-> "66bc0adffd0d4f5a"]) @@
    ("4gj" :> [neg |-> FALSE, hex |-> "3be95be4049a3027"]) @@
    ("4gk" :> [neg |-> TRUE, hex |-> "2d8bd807f48c59c8"]) @@
    ("4gl" :> [neg |-> TRUE, hex |-> "7e64e76d213ce66e"]) @@
    ("4gm" :> [neg |-> FALSE, hex |-> "2d1e26f8616d5536"]) @@
    ("4gn" :> [neg |-> FALSE, hex |-> "3b371c15925a4528"]) @@
    ("4go" :> [neg |-> TRUE, hex |-> "54b613c1ee387eab"]) @@
    ("4gp" :> [neg |-> FALSE, hex |-> "1c644bb5da5def42"]) @@
    ("4gq" :> [neg |-> TRUE, hex |-> "6d7a8ec6807984fa"]) @@
    ("5kk" :> [neg |-> FALSE, hex |-> "433eaba86bcb3755"]) @@
    ("5kl" :> [neg |-> FALSE, hex |-> "1a085fc6416b843e"]) @@
    ("5km" :> [neg |-> TRUE, hex |-> "5cd6e90846304838"]) @@
    ("5kn" :> [neg |-> TRUE, hex |-> "192baaf9d939a15"]) @@
    ("5ko" :> [neg |-> TRUE, hex |-> "472e4737df9e2c75"]) @@
    ("5kp" :> [neg |-> FALSE, hex |-> "a996d3f5006f760"]) @@
    ("5kq" :> [neg |-> FALSE, hex |-> "752b943469ede38e"]) @@
    ("5kr" :> [neg |-> TRUE, hex |-> "614058ecebe775c6"]) @@
    ("5ks" :> [neg |-> TRUE, hex |-> "5f9e887b5dd4a43b"]) @@
    ("5kt" :> [neg |-> TRUE, hex |-> "6791c9c0c040bb04"]) @@
    ("5ku" :> [neg |-> FALSE, hex |-> "5000c80a5c380006"])

(* hash(s) of a process started with PYTHONHASHSEED=1: sign and magnitude *)
PyHashTable1 ==
    ("658d342" :> [neg |-> FALSE, hex |-> "7466d793b5ce8517"]) @@
    ("10321d0" :> [neg |-> FALSE, hex |-> "3627e0d4dc389fa2"]) @@
    ("25e529e" :> [neg |-> TRUE, hex |-> "55089ea2a2b046a"]) @@
    ("1710147" :> [neg |-> TRUE, hex |-> "6737ccaf3f90456"]) @@
    ("d42cce0" :> [neg |-> TRUE, hex |-> "2a6c014c9cf258c7"]) @@
    ("b95573a" :> [neg |-> TRUE, hex |-> "2b31ca9342655fde"]) @@
    ("c85c662" :> [neg |-> TRUE, hex |-> "4cae150b033a6bab"]) @@
    ("0802bf1" :> [neg |-> FALSE, hex |-> "52b5107686cfbd9a"]) @@
    ("69a3bab" :> [neg |-> TRUE, hex |-> "66270b23faf48c41"]) @@
    ("92249df" :> [neg |-> FALSE, hex |-> "5af961b49d0dd75c"]) @@
    ("8f730a4" :> [neg |-> FALSE, hex |-> "58e67390fe9b44b6"]) @@
    ("670eadb" :> [neg |-> TRUE, hex |-> "654980c5aae117b7"]) @@
    ("7120516" :> [neg |-> TRUE, hex |-> "6018e6aa87285d9f"]) @@
    ("fc4485b" :> [neg |-> TRUE, hex |-> "178f3e1efd41b6ba"]) @@
    ("89aeb3d" :> [neg |-> FALSE, hex |-> "5c17c4d6b1c87abd"]) @@
    ("2236b79" :> [neg |-> FALSE, hex |-> "338f4cdefa0ad643"]) @@
    ("b4eccc9" :> [neg |-> FALSE, hex |-> "695a4285ab6ca197"]) @@
    ("77cebc4" :> [neg |-> TRUE, hex |-> "7c4dfb2bc36ad9ca"]) @@
    ("9d0a04" :> [neg |-> FALSE, hex |-> "2dfc85a90ad342ac"]) @@
    ("94ea1d1" :> [neg |-> TRUE, hex |-> "3fbbf2f1c916ef2a"]) @@
    ("833fec4" :> [neg |-> FALSE, hex |-> "71377aa4f9aea67e"]) @@
    ("a1afd4f" :> [neg |-> TRUE, hex |-> "2674e9ff2c31873f"]) @@
    ("634167e" :> [neg |-> TRUE, hex |-> "4bd9fbd6c218124f"]) @@
    ("6ca249d" :> [neg |-> FALSE, hex |-> "65b79a9442816a"]) @@
    ("bc16f30" :> [neg |-> FALSE, hex |-> "649d963361340003"]) @@
    ("81e2110" :> [neg |-> FALSE, hex |-> "45060fbc888e119"]) @@
    ("48e2685" :> [neg |-> FALSE, hex |-> "1f3de1571497b309"]) @@
    ("8fa7a83" :> [neg |-> FALSE, hex |-> "5c32d95869c71b6c"]) @@
    ("10e8092" :> [neg |-> TRUE, hex |-> "166fcf3b2d4e6d44"]) @@
    ("4f65af8" :> [neg |-> TRUE, hex |-> "1e27980a6825e99c"]) @@
    ("28ec88b" :> [neg |-> FALSE, hex |-> "4ffe4d1c23ce6e1a"]) @@
    ("171f0de" :> [neg |-> TRUE, hex |-> "4f8e03035e364415"]) @@
    ("eaca003" :> [neg |-> TRUE, hex |-> "287c8a46c69f5ba2"]) @@
    ("74f565d" :> [neg |-> FALSE, hex |-> "5fc60a32af9613d8"]) @@
    ("7755515" :> [neg |-> FALSE, hex |-> "ac94df9d8a2b774"]) @@
    ("e57708e" :> [neg |-> FALSE, hex |-> "708d79ed819fbe0a"]) @@
    ("cad98bb" :> [neg |-> TRUE, hex |-> "474478db846b7377"]) @@
    ("2e21208" :> [neg |-> TRUE, hex |-> "24dd43b7c81b78ed"]) @@
    ("82f746a" :> [neg |-> FALSE, hex |-> "6b42ba89673752c6"]) @@
    ("74fc8d5" :> [neg |-> FALSE, hex |-> "3e3a10c1d7874225"]) @@
    ("3bc6440" :> [neg |-> FALSE, hex |-> "2091ed7de1312fc"]) @@
    ("9b74dad" :> [neg |-> TRUE, hex |-> "2bb3433fe1dc4b06"]) @@
    ("afe633c" :> [neg |-> FALSE, hex |-> "22655fe51945fb94"]) @@
    ("3145f80" :> [neg |-> FALSE, hex |-> "7683aaaa9f230d5d"]) @@
    ("9d89102" :> [neg |-> FALSE, hex |-> "5464a629e1728d0b"]) @@
    ("abc123" :> [neg |-> TRUE, hex |-> "47aa08f3738892c"]) @@
    ("AKLw" :> [neg |-> FALSE, hex |-> "6925060e96a0301f"]) @@
    ("HU" :> [neg |-> TRUE, hex |-> "10bb12194f59d26f"]) @@
    ("144" :> [neg |-> FALSE, hex |-> "62a6f86f5b2d357"]) @@
    ("145" :> [neg |-> TRUE, hex |-> "1887c7a0fd2bacb2"]) @@
    ("146" :> [neg |-> FALSE, hex |-> "2a1c365f4a7d6892"]) @@
    ("147" :> [neg |-> TRUE, hex |-> "fc465898e911a5a"]) @@
    ("148" :> [neg |-> FALSE, hex |-> "9c8bb35b19121d2"]) @@
    ("149" :> [neg |-> FALSE, hex |-> "ede71e09360a4fd"]) @@
    ("14a" :> [neg |-> TRUE, hex |-> "e902e79a30ab08e"]) @@
    ("14b" :> [neg |-> TRUE, hex |-> "2f1ed95383df579e"]) @@
    ("14c" :> [neg |-> FALSE, hex |-> "1ad5e7be71febef"]) @@
    ("14d" :> [neg |-> FALSE, hex |-> "53b3bcd2a3bbd3e3"]) @@
    ("14e" :> [neg |-> TRUE, hex |-> "136faaad5cbc4134"]) @@
    ("282" :> [neg |-> FALSE, hex |-> "6c9ff4355b137596"]) @@
    ("283" :> [neg |-> FALSE, hex |-> "6da432da30f07c9a"]) @@
    ("284" :> [neg |-> FALSE, hex |-> "7c12322baefbb72d"]) @@
    ("285" :> [neg |-> FALSE, hex |-> "29a7351f75f8afd3"]) @@
    ("286" :> [neg |-> FALSE, hex |-> "54b190c54f030269"]) @@
    ("287" :> [neg |-> FALSE, hex |-> "1d77c59addb933cd"]) @@
    ("288" :> [neg |-> FALSE, hex |-> "3cfa72d23e470662"]) @@
    ("289" :> [neg |-> FALSE, hex |-> "17ab419de8ba71c0"]) @@
    ("28a" :> [neg |-> FALSE, hex |-> "4973efa98b759a20"]) @@
    ("28b" :> [neg |-> TRUE, hex |-> "467b7627c15c9b97"]) @@
    ("28c" :> [neg |-> TRUE, hex |-> "2b286c960536aabe"]) @@
    ("28d" :> [neg |-> TRUE, hex |-> "78eb1baffce5d848"]) @@
    ("28e" :> [neg |-> TRUE, hex |-> "6d5d4db203f5c09e"]) @@
    ("28f" :> [neg |-> TRUE, hex |-> "4fe307348a2f01f6"]) @@
    ("28g" :> [neg |-> TRUE, hex |-> "34e9d7124ac261ec"]) @@
    ("28h" :> [neg |-> TRUE, hex |-> "54272e9ff6fa383c"]) @@
    ("28i" :> [neg |-> FALSE, hex |-> "558d1e1287809266"]) @@
    ("3c6" :> [neg |-> TRUE, hex |-> "26b90e4d252c159d"]) @@
    ("3c7" :> [neg |-> TRUE, hex |-> "7c430e4e67754aaa"]) @@
    ("3c8" :> [neg |-> FALSE, hex |-> "7e4c1dbfa30627e3"]) @@
    ("3c9" :> [neg |-> TRUE, hex |-> "6b3b29a4024afe2c"]) @@
    ("3ca" :> [neg |-> FALSE, hex |-> "5dd2776e073fcc3c"]) @@
    ("3cb" :> [neg |-> FALSE, hex |-> "6ec77fa7a467bfe5"]) @@
    ("3cc" :> [neg |-> FALSE, hex |-> "6585319c9cf60ab6"]) @@
    ("3cd" :> [neg |-> TRUE, hex |-> "29ab61388536c124"]) @@
    ("3ce" :> [neg |-> TRUE, hex |-> "507cd6a9401d3b2c"]) @@
    ("3cf" :> [neg |-> TRUE, hex |-> "3cd3234ed690538d"]) @@
    ("3cg" :> [neg |-> FALSE, hex |-> "5d29dd2b0c557525"]) @@
    ("3ch" :> [neg |-> FALSE, hex |-> "62fe280e6e19784a"]) @@
    ("3ci" :> [neg |-> FALSE, hex |-> "305b71177a2b4788"]) @@
    ("3cj" :> [neg |-> FALSE, hex |-> "5d15cc025892855d"]) @@
    ("3ck" :> [neg |-> TRUE, hex |-> "2a5861b25c54017"]) @@
    ("3cl" :> [neg |-> FALSE, hex |-> "58ccd579ef9956af"]) @@
    ("3cm" :> [neg |-> FALSE, hex |-> "3f3169ddd432d83a"]) @@
    ("4gg" :> [neg |-> TRUE, hex |-> "225e92b9c74895ef"]) @@
    ("4gh" :> [neg |-> FALSE, hex |-> "2cb5d6eeb49e40e9"]) @@
    ("4gi" :> [neg |-> TRUE, hex |-> "12ef0328055c5a8b"]) @@
    ("4gj" :> [neg |-> TRUE, hex |-> "11f4bd72c5af444"]) @@
    ("4gk" :> [neg |-> FALSE, hex |-> "6d5bf4ae50054f3e"]) @@
    ("4gl" :> [neg |-> FALSE, hex |-> "5c154a50298953f3"]) @@
    ("4gm" :> [neg |-> FALSE, hex |-> "510c6af3b9f52958"]) @@
    ("4gn" :> [neg |-> TRUE, hex |-> "28b96e265f29ff83"]) @@
    ("4go" :> [neg |-> TRUE, hex |-> "3837bb2f5565bbf1"]) @@
    ("4gp" :> [neg |-> FALSE, hex |-> "5cd0786ad0fc43e1"]) @@
    ("4gq" :> [neg |-> TRUE, hex |-> "4999abc5fe2f1ecf"]) @@
    ("5kk" :> [neg |-> TRUE, hex |-> "590356175db19b1a"]) @@
    ("5kl" :> [neg |-> TRUE, hex |-> "1116b9cd3cf025b4"]) @@
    ("5km" :> [neg |-> TRUE, hex |-> "393a4d41c9ecc12b"]) @@
    ("5kn" :> [neg |-> TRUE, hex |-> "7d914fdeb17aa099"]) @@
    ("5ko" :> [neg |-> TRUE, hex |-> "2c10ef0385ebdbf7"]) @@
    ("5kp" :> [neg |-> TRUE, hex |-> "10be3b53542f1b21"]) @@
    ("5kq" :> [neg |-> FALSE, hex |-> "145bc22062ea4d7e"]) @@
    ("5kr" :> [neg |-> FALSE, hex |-> "646ca5c0ef5f0869"]) @@
    ("5ks" :> [neg |-> TRUE, hex |-> "3501b32bf4ef5328"]) @@
    ("5kt" :> [neg |-> TRUE, hex |-> "d0d847e177fd666"]) @@
    ("5ku" :> [neg |-> TRUE, hex |-> "d437bdc345f9689"])
\* END TABLES

(* --------------------------- pure functions --------------------------- *)

Md5Hex(s) == Md5Table[s]

Sha1Hex(s) == Sha1Table[s]

Crc32Hex(s) == Crc32Table[s]

PyHashTable(seed) == IF seed = 0 THEN PyHashTable0 ELSE PyHashTable1

\* every string the index can be asked about
Codes == DOMAIN PyHashTable0

HexDigit ==
    ("0" :> 0) @@ ("1" :> 1) @@ ("2" :> 2) @@ ("3" :> 3) @@ ("4" :> 4) @@ ("5" :> 5) @@
    ("6" :> 6) @@ ("7" :> 7) @@ ("8" :> 8) @@ ("9" :> 9) @@ ("a" :> 10) @@ ("b" :> 11) @@
    ("c" :> 12) @@ ("d" :> 13) @@ ("e" :> 14) @@ ("f" :> 15)

RECURSIVE HexModFrom(_, _, _, _)
HexModFrom(s, i, acc, n) ==
    IF i > Len(s) THEN acc
    ELSE HexModFrom(s, i + 1, (acc * HexRadix + HexDigit[SubSeq(s, i, i)]) % n, n)

\* int(s, 16) % n, most significant digit first
HexMod(s, n) == HexModFrom(s, 1, 0, n)

\* hash(value) % size: Python's % takes the sign of the divisor
PyHashMod(seed, value, size) ==
    LET h == PyHashTable(seed)[value]
        m == HexMod(h.hex, size)
    IN  IF h.neg THEN (size - m) % size ELSE m

\* SimpleBloomFilter._hashes: the three slot indices of a value
Hashes(seed, value, size) ==
    << PyHashMod(seed, value, size),
       HexMod(Crc32Hex(value), size),
       HexMod(Md5Hex(value), size) >>

\* the slot indices of every code, computed once
SlotTable == [seed \in HashSeeds |-> [v \in Codes |-> Hashes(seed, v, BloomSize)]]

Slots(seed, value) == SlotTable[seed][value]

\* add with the first index left out: for h in self._hashes(value)[1:]
BloomAddSkipsFirst(bits, hs) == bits \cup {hs[i] : i \in 2..Len(hs)}

\* SimpleBloomFilter.add on the set of slots that hold 1
BloomAdd(bits, hs) == bits \cup {hs[i] : i \in 1..Len(hs)}

\* contains with any in place of all
BloomContainsAny(bits, hs) == \E i \in 1..Len(hs) : hs[i] \in bits

\* SimpleBloomFilter.contains
BloomContains(bits, hs) == \A i \in 1..Len(hs) : hs[i] \in bits

\* a lookup by subscript, self.map[short_url]: a missing key raises KeyError
GetSubscript(m, short_url) == IF short_url \in DOMAIN m THEN m[short_url] ELSE "KeyError"

\* InMemoryDB.get
Get(m, short_url) == IF short_url \in DOMAIN m THEN m[short_url] ELSE None

\* a save that keeps an existing entry: self.map.setdefault(short_url, long_url)
MapPutKeepsFirst(m, short_url, url) ==
    [c \in DOMAIN m \cup {short_url} |-> IF c \in DOMAIN m THEN m[c] ELSE url]

\* self.map[short_url] = long_url
MapPut(m, short_url, url) ==
    [c \in DOMAIN m \cup {short_url} |-> IF c = short_url THEN url ELSE m[c]]

\* s[:7]
Take7(s) == IF Len(s) <= CodeLen THEN s ELSE SubSeq(s, 1, CodeLen)

\* a _hash whose last branch is sha1: only the name "md5" gives md5
HashOfUnknownAsSha1(method, url) ==
    IF method = "crc32" THEN Crc32Hex(url)
    ELSE IF method = "md5" THEN Md5Hex(url)
    ELSE Sha1Hex(url)

\* HashShortener._hash
HashOf(method, url) ==
    IF method = "crc32" THEN Crc32Hex(url)
    ELSE IF method = "sha1" THEN Sha1Hex(url)
    ELSE Md5Hex(url)

\* a round that leaves the salt out: md5(short)[:7]
RehashNoSalt(short_url) == Take7(Md5Hex(short_url))

\* one round of the collision loop: md5(short + "unique")[:7]
Rehash(short_url) == Take7(Md5Hex(short_url \o Salt))

\* a first candidate that went through the salt loop once before any check
FirstCandidateSalted(method, url) == Rehash(Take7(HashOf(method, url)))

\* the first candidate: hashed[:7]
FirstCandidate(method, url) == Take7(HashOf(method, url))

RECURSIVE BitOr(_, _)
\* a | b on non-negative integers
BitOr(a, b) ==
    IF a = 0 THEN b
    ELSE IF b = 0 THEN a
    ELSE (IF a % 2 = 1 \/ b % 2 = 1 THEN 1 ELSE 0) + 2 * BitOr(a \div 2, b \div 2)

\* (timestamp << 12) | sequence
Pack(ts, seq) == BitOr(ts * 2^SeqBits, seq)

BASE62 ==
    << "0", "1", "2", "3", "4", "5", "6", "7", "8", "9",
       "a", "b", "c", "d", "e", "f", "g", "h", "i", "j", "k", "l", "m",
       "n", "o", "p", "q", "r", "s", "t", "u", "v", "w", "x", "y", "z",
       "A", "B", "C", "D", "E", "F", "G", "H", "I", "J", "K", "L", "M",
       "N", "O", "P", "Q", "R", "S", "T", "U", "V", "W", "X", "Y", "Z" >>

RECURSIVE EncodeLoop(_, _)
\* while num > 0: num, rem = divmod(num, 62); result.append(BASE62[rem])
EncodeLoop(n, result) ==
    IF n > 0 THEN EncodeLoop(n \div Radix, Append(result, BASE62[(n % Radix) + 1]))
    ELSE result

RECURSIVE JoinInOrder(_)
\* the symbols joined in the order the loop produced them: ''.join(result)
JoinInOrder(result) ==
    IF result = << >> THEN ""
    ELSE result[1] \o JoinInOrder(SubSeq(result, 2, Len(result)))

RECURSIVE JoinReversed(_)
\* ''.join(reversed(result))
JoinReversed(result) ==
    IF result = << >> THEN ""
    ELSE result[Len(result)] \o JoinReversed(SubSeq(result, 1, Len(result) - 1))

base62_encode(n) == IF n = 0 THEN "0" ELSE JoinReversed(EncodeLoop(n, << >>))

(* ------------------------------- state -------------------------------- *)

VARIABLES
    callers,         \* the threads that call into the objects
    now,             \* the last value the millisecond clock returned
    last_timestamp,  \* Snowflake.last_timestamp
    sequence,        \* Snowflake.sequence
    lock,            \* Snowflake.lock: its holder, or "free"
    map,             \* InMemoryDB.map: short -> long
    bit_array,       \* SimpleBloomFilter.bit_array, as the set of slots holding 1
    hashseed,        \* the process's str hash seed
    strategy,        \* URLShortener.strategy
    inst,            \* how many SnowflakeShortener objects the context has been given
    pc,              \* each caller's position
    op,              \* the call each caller is in
    long_url,        \* each caller's long_url argument
    short,           \* each caller's local short
    timestamp,       \* each caller's local timestamp in generate()
    started_empty,   \* whether the store was empty when the caller's call began
    ret,             \* what each caller's last call returned
    ops,             \* operations started since Init
    issued,          \* the IDs the current generator returned, in order, with their timestamps
    allocs,          \* the allocations that returned
    added,           \* the values given to SimpleBloomFilter.add
    first,           \* the long URL first saved under each short
    writers          \* who has written to InMemoryDB.map: "save", or the strategy's name

vars ==
    << callers, now, last_timestamp, sequence, lock, map, bit_array, hashseed, strategy,
       inst, pc, op, long_url, short, timestamp, started_empty, ret, ops, issued, allocs,
       added, first, writers >>

gen_vars == << last_timestamp, sequence, lock >>
store_vars == << map, bit_array >>
env_vars == << callers, hashseed >>
hist_vars == << issued, allocs, added, first, writers >>

EmptyMap == [c \in {} |-> None]

NoRet == [op |-> "none", url |-> "", code |-> "", num |-> -1]

\* the collision check made against the filter of a store nothing was saved to
ExistsInFreshFilter(value) == BloomContains({}, Slots(hashseed, value))

\* InMemoryDB.exists
Exists(value) == BloomContains(bit_array, Slots(hashseed, value))

StoreEmpty == map = EmptyMap /\ bit_array = {}

(* -------------------------------- Init -------------------------------- *)

\* Snowflake(), InMemoryDB(), URLShortener(strategy) just constructed, callers idle
Constructed(cs) ==
    /\ callers = cs
    /\ now = 1
    /\ last_timestamp = -1
    /\ sequence = 0
    /\ lock = "free"
    /\ map = EmptyMap
    /\ bit_array = {}
    /\ hashseed \in HashSeeds
    /\ strategy \in Strategies
    /\ inst = 1
    /\ pc = [t \in cs |-> "idle"]
    /\ op = [t \in cs |-> "none"]
    /\ long_url = [t \in cs |-> ""]
    /\ short = [t \in cs |-> ""]
    /\ timestamp = [t \in cs |-> -1]
    /\ started_empty = [t \in cs |-> FALSE]
    /\ ret = [t \in cs |-> NoRet]
    /\ ops = 0
    /\ issued = << >>
    /\ allocs = {}
    /\ added = {}
    /\ first = EmptyMap
    /\ writers = {}

\* one caller
Init == Constructed({"c1"})

\* two callers sharing the objects
InitConc == Constructed({"c1", "c2"})

(* ------------------------------ actions ------------------------------- *)

Idle(t) == pc[t] = "idle"

Begin(t, o, url, code, at) ==
    /\ ops < MaxCalls
    /\ ops' = ops + 1
    /\ op' = [op EXCEPT ![t] = o]
    /\ long_url' = [long_url EXCEPT ![t] = url]
    /\ short' = [short EXCEPT ![t] = code]
    /\ started_empty' = [started_empty EXCEPT ![t] = StoreEmpty]
    /\ pc' = [pc EXCEPT ![t] = at]

Return(t, r) ==
    /\ ret' = [ret EXCEPT ![t] = r]
    /\ pc' = [pc EXCEPT ![t] = "idle"]
    /\ op' = [op EXCEPT ![t] = "none"]
    /\ long_url' = [long_url EXCEPT ![t] = ""]
    /\ short' = [short EXCEPT ![t] = ""]
    /\ timestamp' = [timestamp EXCEPT ![t] = -1]
    /\ started_empty' = [started_empty EXCEPT ![t] = FALSE]

\* a caller calls Snowflake.generate() on the current generator
CallGenerate(t) ==
    /\ Idle(t)
    /\ Begin(t, "generate", "", "", "gen_lock")
    /\ UNCHANGED << now, gen_vars, store_vars, env_vars, strategy, inst, timestamp, ret,
                    hist_vars >>

\* URLShortener.shorten(long_url): the strategy's get_shortened_url begins.
\* HashShortener: hashed = self._hash(long_url); short = hashed[:7]
\* SnowflakeShortener: num = self.snowflake.generate()
CallShorten(t, url) ==
    /\ Idle(t)
    /\ IF strategy = Snow
         THEN Begin(t, "shorten", url, "", "gen_lock")
         ELSE Begin(t, "shorten", url, FirstCandidate(strategy, url), "hash_check")
    /\ UNCHANGED << now, gen_vars, store_vars, env_vars, strategy, inst, timestamp, ret,
                    hist_vars >>

\* generate() without the lock: the body is entered whoever holds it
GenAcquireNoLock(t) ==
    /\ pc[t] = "gen_lock"
    /\ lock' = t
    /\ pc' = [pc EXCEPT ![t] = "gen_read"]
    /\ UNCHANGED << now, last_timestamp, sequence, store_vars, env_vars, strategy, inst, op,
                    long_url, short, timestamp, started_empty, ret, ops, hist_vars >>

\* with self.lock: (entered)
GenAcquire(t) ==
    /\ pc[t] = "gen_lock"
    /\ lock = "free"
    /\ lock' = t
    /\ pc' = [pc EXCEPT ![t] = "gen_read"]
    /\ UNCHANGED << now, last_timestamp, sequence, store_vars, env_vars, strategy, inst, op,
                    long_url, short, timestamp, started_empty, ret, ops, hist_vars >>

\* timestamp = self._timestamp(): the clock never runs backwards
GenRead(t) ==
    /\ pc[t] = "gen_read"
    /\ \E ms \in now..MaxTime :
          /\ now' = ms
          /\ timestamp' = [timestamp EXCEPT ![t] = ms]
    /\ pc' = [pc EXCEPT ![t] = "gen_seq"]
    /\ UNCHANGED << gen_vars, store_vars, env_vars, strategy, inst, op, long_url, short,
                    started_empty, ret, ops, hist_vars >>

\* the sequence after the comparison with last_timestamp
\* a counter that is never reset
NextSequenceNoReset(ts, last, seq) == seq + 1

NextSequence(ts, last, seq) == IF ts = last THEN seq + 1 ELSE 0

\* if timestamp == self.last_timestamp: self.sequence += 1 else: self.sequence = 0
GenSeq(t) ==
    /\ pc[t] = "gen_seq"
    /\ sequence' = NextSequence(timestamp[t], last_timestamp, sequence)
    /\ pc' = [pc EXCEPT ![t] = "gen_last"]
    /\ UNCHANGED << now, last_timestamp, lock, store_vars, env_vars, strategy, inst, op,
                    long_url, short, timestamp, started_empty, ret, ops, hist_vars >>

\* self.last_timestamp = timestamp
GenLast(t) ==
    /\ pc[t] = "gen_last"
    /\ last_timestamp' = timestamp[t]
    /\ pc' = [pc EXCEPT ![t] = "gen_pack"]
    /\ UNCHANGED << now, sequence, lock, store_vars, env_vars, strategy, inst, op, long_url,
                    short, timestamp, started_empty, ret, ops, hist_vars >>

\* the return statement of generate() if the lock were never released
GenPackKeepsLock(t) ==
    /\ pc[t] = "gen_pack"
    /\ LET id == Pack(timestamp[t], sequence) IN
          /\ issued' = Append(issued, [ts |-> timestamp[t], id |-> id])
          /\ IF op[t] = "generate"
               THEN Return(t, [op |-> "generate", url |-> "", code |-> "", num |-> id])
               ELSE /\ short' = [short EXCEPT ![t] = base62_encode(id)]
                    /\ pc' = [pc EXCEPT ![t] = "save_map"]
                    /\ UNCHANGED << op, long_url, timestamp, started_empty, ret >>
    /\ lock' = lock
    /\ UNCHANGED << now, last_timestamp, sequence, store_vars, env_vars, strategy, inst, ops,
                    allocs, added, first, writers >>

\* return (timestamp << 12) | self.sequence, leaving the with block.
\* In get_shortened_url the ID goes on: short = base62_encode(num)
GenPack(t) ==
    /\ pc[t] = "gen_pack"
    /\ LET id == Pack(timestamp[t], sequence) IN
          /\ issued' = Append(issued, [ts |-> timestamp[t], id |-> id])
          /\ IF op[t] = "generate"
               THEN Return(t, [op |-> "generate", url |-> "", code |-> "", num |-> id])
               ELSE /\ short' = [short EXCEPT ![t] = base62_encode(id)]
                    /\ pc' = [pc EXCEPT ![t] = "save_map"]
                    /\ UNCHANGED << op, long_url, timestamp, started_empty, ret >>
    /\ lock' = "free"
    /\ UNCHANGED << now, last_timestamp, sequence, store_vars, env_vars, strategy, inst, ops,
                    allocs, added, first, writers >>

\* the rounds of the collision loop are followed as far as the digest tables reach
Rehashable(short_url) == (short_url \o Salt) \in DOMAIN Md5Table

\* while db.exists(short): short += "unique"; short = md5(short)[:7]
HashCollide(t) ==
    /\ pc[t] = "hash_check"
    /\ Exists(short[t])
    /\ Rehashable(short[t])
    /\ short' = [short EXCEPT ![t] = Rehash(short[t])]
    /\ UNCHANGED << now, gen_vars, store_vars, env_vars, strategy, inst, pc, op, long_url,
                    timestamp, started_empty, ret, ops, hist_vars >>

\* db.exists(short) is false: the loop ends and db.save(short, long_url) begins
HashAccept(t) ==
    /\ pc[t] = "hash_check"
    /\ ~Exists(short[t])
    /\ pc' = [pc EXCEPT ![t] = "save_map"]
    /\ UNCHANGED << now, gen_vars, store_vars, env_vars, strategy, inst, op, long_url, short,
                    timestamp, started_empty, ret, ops, hist_vars >>

\* a caller calls InMemoryDB.save(short_url, long_url) itself
CallSave(t, code, url) ==
    /\ Idle(t)
    /\ Begin(t, "save", url, code, "save_map")
    /\ UNCHANGED << now, gen_vars, store_vars, env_vars, strategy, inst, timestamp, ret,
                    hist_vars >>

\* InMemoryDB.save, first statement: self.map[short_url] = long_url
SaveMap(t) ==
    /\ pc[t] = "save_map"
    /\ map' = MapPut(map, short[t], long_url[t])
    /\ first' = IF short[t] \in DOMAIN first THEN first
                ELSE MapPut(first, short[t], long_url[t])
    /\ pc' = [pc EXCEPT ![t] = "save_bloom"]
    /\ writers' = writers \cup {IF op[t] = "save" THEN "save" ELSE strategy}
    /\ UNCHANGED << now, gen_vars, bit_array, env_vars, strategy, inst, op, long_url, short,
                    timestamp, started_empty, ret, ops, issued, allocs, added >>

\* InMemoryDB.save, second statement: self.bloom.add(short_url); then the call
\* (save, or the get_shortened_url that made it) returns
SaveBloom(t) ==
    /\ pc[t] = "save_bloom"
    /\ bit_array' = BloomAdd(bit_array, Slots(hashseed, short[t]))
    /\ added' = added \cup {short[t]}
    /\ allocs' = IF op[t] = "shorten"
                 THEN allocs \cup {[n |-> Cardinality(allocs) + 1, strat |-> strategy,
                                    url |-> long_url[t], code |-> short[t],
                                    empty |-> started_empty[t], inst |-> inst]}
                 ELSE allocs
    /\ Return(t, [op |-> op[t], url |-> long_url[t], code |-> short[t], num |-> -1])
    /\ UNCHANGED << now, gen_vars, map, env_vars, strategy, inst, ops, issued, first,
                    writers >>

\* the shorts a caller saves directly: one no strategy produces here, the first
\* candidate of UrlA under md5, and two whose filter slots under PYTHONHASHSEED=0
\* (6341, 5443, 1429 and 8266, 809, 6545) cover the slots 6545, 6341, 5443 of
\* that first candidate
SaveCodes == {"abc123", FirstCandidate("md5", UrlA), "AKLw", "HU"}

\* the shorts a caller resolves: the stored ones, the ones a caller may save (before
\* or after they are saved) and one never stored
ResolveCodes == DOMAIN map \cup SaveCodes \cup {"doesNotExist"}

\* a resolve whose lookup stores the miss, as self.map.setdefault(short_url) would
ResolveStoresMiss(t, code) ==
    /\ Idle(t)
    /\ ops < MaxCalls
    /\ ops' = ops + 1
    /\ ret' = [ret EXCEPT ![t] =
                 [op |-> "resolve", url |-> Get(map, code), code |-> code, num |-> -1]]
    /\ map' = IF code \in DOMAIN map THEN map ELSE MapPut(map, code, None)
    /\ UNCHANGED << now, gen_vars, bit_array, env_vars, strategy, inst, pc, op, long_url,
                    short, timestamp, started_empty, hist_vars >>

\* URLShortener.resolve(short_url): strategy.get_longer_url -> db.get
Resolve(t, code) ==
    /\ Idle(t)
    /\ ops < MaxCalls
    /\ ops' = ops + 1
    /\ ret' = [ret EXCEPT ![t] =
                 [op |-> "resolve", url |-> Get(map, code), code |-> code, num |-> -1]]
    /\ UNCHANGED << now, gen_vars, store_vars, env_vars, strategy, inst, pc, op, long_url,
                    short, timestamp, started_empty, hist_vars >>

\* URLShortener.set_strategy(HashShortener(method=s)) or
\* URLShortener.set_strategy(SnowflakeShortener()): a new SnowflakeShortener owns a
\* new Snowflake().  Taken between calls: no caller is inside the old strategy.
SetStrategy(t, s) ==
    /\ \A u \in callers : Idle(u)
    /\ ops < MaxCalls
    /\ ops' = ops + 1
    /\ strategy' = s
    /\ IF s = Snow
         THEN /\ last_timestamp' = -1
              /\ sequence' = 0
              /\ lock' = "free"
              /\ inst' = inst + 1
              /\ issued' = << >>
         ELSE UNCHANGED << gen_vars, inst, issued >>
    /\ ret' = [ret EXCEPT ![t] = [op |-> "set_strategy", url |-> "", code |-> s, num |-> -1]]
    /\ UNCHANGED << now, store_vars, env_vars, pc, op, long_url, short, timestamp,
                    started_empty, allocs, added, first, writers >>

Next ==
    \/ \E t \in callers : CallGenerate(t)
    \/ \E t \in callers, url \in Targets : CallShorten(t, url)
    \/ \E t \in callers : GenAcquire(t)
    \/ \E t \in callers : GenRead(t)
    \/ \E t \in callers : GenSeq(t)
    \/ \E t \in callers : GenLast(t)
    \/ \E t \in callers : GenPack(t)
    \/ \E t \in callers : HashCollide(t)
    \/ \E t \in callers : HashAccept(t)
    \/ \E t \in callers, code \in SaveCodes, url \in Targets : CallSave(t, code, url)
    \/ \E t \in callers : SaveMap(t)
    \/ \E t \in callers : SaveBloom(t)
    \/ \E t \in callers, code \in ResolveCodes : Resolve(t, code)
    \/ \E t \in callers, s \in Strategies : SetStrategy(t, s)

Spec == Init /\ [][Next]_vars

SpecConc == InitConc /\ [][Next]_vars

(* ------------------ one Snowflake shared by two calling threads ---------------- *)

Threads == {"c1", "c2"}

\* Snowflake() just constructed, two threads about to call generate()
InitGen == Constructed(Threads) /\ strategy = Snow /\ hashseed = 0

NextGen ==
    \/ \E t \in Threads : CallGenerate(t)
    \/ \E t \in Threads : GenAcquire(t)
    \/ \E t \in Threads : GenRead(t)
    \/ \E t \in Threads : GenSeq(t)
    \/ \E t \in Threads : GenLast(t)
    \/ \E t \in Threads : GenPack(t)

SpecGen == InitGen /\ [][NextGen]_vars

\* the statements of generate() a thread that is inside a call executes next
GenStep(t) == GenAcquire(t) \/ GenRead(t) \/ GenSeq(t) \/ GenLast(t) \/ GenPack(t)

\* a thread that can take its next statement for good is eventually scheduled; whether
\* and when a thread calls generate() is left to it
GenFairness == \A t \in Threads : WF_vars(GenStep(t))

SpecGenFair == InitGen /\ [][NextGen]_vars /\ GenFairness

(* ------------------------- base62_encode called directly ----------------------- *)

\* integers around the powers of 62, up to five symbols, and a Snowflake ID
EncodeEdges == {3843, 3844, 4096, 238327, 238328, 14776335, 14776336, 916132831}

EncodeInputs == 0..MaxNum \cup EncodeEdges

\* a caller calls base62_encode(num) itself
Encode(t, n) ==
    /\ Idle(t)
    /\ ops < MaxCalls
    /\ ops' = ops + 1
    /\ ret' = [ret EXCEPT ![t] =
                 [op |-> "encode", url |-> "", code |-> base62_encode(n), num |-> n]]
    /\ UNCHANGED << now, gen_vars, store_vars, env_vars, strategy, inst, pc, op, long_url,
                    short, timestamp, started_empty, hist_vars >>

NextEncode == \E t \in callers, n \in EncodeInputs : Encode(t, n)

SpecEncode == Init /\ [][NextEncode]_vars

(* ----------------- a generator at the end of its sequence range ---------------- *)

\* calls one millisecond has already served: the whole 12-bit sequence range
BurstCalls == 2^SeqBits

\* One caller, one SnowflakeShortener.  Its generator has served BurstCalls calls,
\* all of which read millisecond `now`: the first was get_shortened_url(UrlA), the
\* others generate().  The fields are what GenSeq, GenLast, GenPack, SaveMap and
\* SaveBloom leave after those calls.
InitBurst ==
    /\ callers = {"c1"}
    /\ now \in 1..2
    /\ last_timestamp = now
    /\ sequence = BurstCalls - 1
    /\ lock = "free"
    /\ hashseed \in HashSeeds
    /\ strategy = Snow
    /\ inst = 1
    /\ LET code0 == base62_encode(Pack(now, 0)) IN
          /\ map = (code0 :> UrlA)
          /\ bit_array = BloomAdd({}, Slots(hashseed, code0))
          /\ allocs = {[n |-> 1, strat |-> Snow, url |-> UrlA, code |-> code0,
                        empty |-> TRUE, inst |-> 1]}
          /\ added = {code0}
          /\ first = (code0 :> UrlA)
    /\ writers = {Snow}
    /\ issued = [i \in 1..BurstCalls |-> [ts |-> now, id |-> Pack(now, i - 1)]]
    /\ pc = [t \in callers |-> "idle"]
    /\ op = [t \in callers |-> "none"]
    /\ long_url = [t \in callers |-> ""]
    /\ short = [t \in callers |-> ""]
    /\ timestamp = [t \in callers |-> -1]
    /\ started_empty = [t \in callers |-> FALSE]
    /\ ret = [t \in callers |->
                [op |-> "generate", url |-> "", code |-> "", num |-> Pack(now, BurstCalls - 1)]]
    /\ ops = 0

\* What a run of calls that all read one millisecond leaves behind, as the actions
\* produce it: the shape InitBurst continues to BurstCalls calls.
BurstShape ==
    (lock = "free" /\ issued # << >> /\ \A i \in 1..Len(issued) : issued[i].ts = last_timestamp)
        => /\ sequence = Len(issued) - 1
           /\ \A i \in 1..Len(issued) : issued[i].id = Pack(last_timestamp, i - 1)

NextBurst ==
    \/ \E t \in callers : CallGenerate(t)
    \/ \E t \in callers, url \in Targets : CallShorten(t, url)
    \/ \E t \in callers : GenAcquire(t)
    \/ \E t \in callers : GenRead(t)
    \/ \E t \in callers : GenSeq(t)
    \/ \E t \in callers : GenLast(t)
    \/ \E t \in callers : GenPack(t)
    \/ \E t \in callers : SaveMap(t)
    \/ \E t \in callers : SaveBloom(t)

SpecBurst == InitBurst /\ [][NextBurst]_vars

(* ------------------- a store whose filter has every bit set ------------------- *)

\* Hash allocations that fill the filter, in order, as tables/saturate.py chose them
\* with the real hash functions of a process started with PYTHONHASHSEED=0.  A row is
\* << n, md5(long_url), hash(short) < 0, abs(hash(short)), crc32(short), md5(short) >>
\* for long_url = "https://example.com/<n>" and short = md5(long_url)[:7], numbers in hex.
\* BEGIN SATURATING
SaturatingRows ==
    <<
    << 0, "f6db091c488c15d50b48698dc2acf36d", TRUE, "1efc02fc9bf33744", "2185c404", "a1df1be700792820ab80ee3ecc3ec334" >>,
    << 1, "d1b6b50e8a83431998a93be1bbe99cb0", FALSE, "5f58897e2d7e6666", "d4ba0d84", "480db50421060577762832b9e5324c24" >>,
    << 2, "e45e511a65f1c79d946d8e651bf00ce2", TRUE, "278531c66d3bf73f", "b13e9b3", "2d00100b3bd6d98e7b5be29cefd3f49e" >>,
    << 3, "e56bd4971c55dfbb65decc058c2ee40e", FALSE, "57e191f1d2dcfbdd", "4ea408f", "b0abd8a0b6c6e12cb2d4713b75acfdbb" >>,
    << 4, "7829a0754855d6b0ce3b1c6bdcfae635", TRUE, "6a15c13389d9615b", "60adaf44", "9757862cdfa9044ad21c0a40d54f4331" >>,
    << 5, "3ac76f8ea6ae120a34d24f6074f26553", TRUE, "3d5eda04c9a0dc69", "4f629c56", "0aedc60035c6091e3e0edb8ca86e0f1d" >>,
    << 6, "9df35dabaf6aab28755830ee575b9578", FALSE, "502f53a283ffc0f2", "de9a7f07", "3036f3a83de3dbfa94d2129cfe055bee" >>,
    << 7, "b41e5c126c4b6bfc509695b0dbb589b1", FALSE, "7d4f25977c8be35a", "b3b94e2b", "7386f2da39082ae9cf6e4227f768192f" >>,
    << 8, "7bbbd1086ab4c43a0b3fcfbf7f1d21a0", TRUE, "58f3553adf8944c4", "6813a5b4", "2e22e83510e46bbb1f831cd36d89f00d" >>,
    << 9, "6adbf0d808e9160cba5ad978db22b497", FALSE, "1b2417f94cd938b8", "b12959cc", "01297582b3966b058fc48e369cc46903" >>,
    << 11, "1662e94065fb3f1beb8e7174c9e9c1ba", TRUE, "d96bb1104be46a", "543498e0", "aba058c400c516a0626d2463c4cc0c31" >>,
    << 12, "f029d2290f2f63ed3e6805b28d3f97f8", TRUE, "37054d610ed87618", "4dcb9bcc", "b4ef38f293330ae5de5e9b04a88c4391" >>,
    << 13, "68f29eb9ebaebb3b231bee4601fbe74e", FALSE, "70efa12eb01b3c6", "622a3998", "6b93d0ffa179fb08cc45288e8d614160" >>,
    << 14, "9e98a7eadcf0079e4cf0d076fcaf6439", TRUE, "2eda2feacead3737", "85ca3f5b", "777342f305d8231d497898068ad23967" >>,
    << 15, "ce3fbc3305883ea893bda510a015f32e", FALSE, "6785be3685af5800", "3d943b5a", "e3d16c9ef8fc6ad20379a175d54874ad" >>,
    << 16, "1f7de99d225bb44b0a2823773b22c427", TRUE, "129c806940f41eb7", "f50d9564", "db444e86dce415308a3c94f077c6c976" >>,
    << 17, "236bf992384176ee518fe6f0f781217e", FALSE, "63529cff7bc5f739", "82ebde88", "312ab69b5beb8de0a0485f75038bcbf4" >>,
    << 18, "4b6a9a1e16666dd7a2acb2c1a5e22b44", TRUE, "2d696ef658caefdf", "2f05a9ed", "aedb8314a8b47614796438fe1991eea2" >>,
    << 19, "f51e0ec1eeaf94d4d8d6d1482f0b97d8", FALSE, "4cf46cf8ffba3b65", "595eec28", "c4a4091d1a37179f509194a202063baf" >>,
    << 20, "dcac9a94ecea2023f890e8cc7fe0709a", TRUE, "695eef6d93aaaf56", "e96dc09d", "ef9ed8e426bbe9b7a49fe947e6e36ba1" >>,
    << 21, "a388aa93557137e5fb78254877128385", TRUE, "4c2f85899e3d9be0", "fc7bbddc", "b92cc6babcd5b999347d57ecb323560f" >>,
    << 22, "33946b179aed07274af5562bc8ffbf54", TRUE, "23574f68f53e78ff", "7382308e", "af395bfe3f6b61927bb1a65fd1ee62a5" >>,
    << 23, "384ecaeea5eef5f214e85792847d71aa", TRUE, "38f6425592d522cf", "bf38464e", "4efc7bc07c786e09dff1f7f3412722a3" >>,
    << 24, "cfc9262e327ccf0b89e084954da67ef2", TRUE, "6035164e6dfd538e", "cc0a2efc", "60131166d2720841f0e25742c2614f0f" >>,
    << 25, "f57b6681fb09e94ccc26aa2dc3136a14", FALSE, "1f0cbed933c6b95f", "226bdb68", "8d43174390369db3df9d8087f40bd5c8" >>,
    << 26, "2334001f80b152bad75fde9425c84f26", FALSE, "46e8d40cf75900d4", "134560ff", "a6fa651a86e722d3aeb91b336805844e" >>,
    << 27, "39a1277a3902a2808294472a855e4c0f", TRUE, "32e92419e2f46610", "c402c328", "e7e151e1e008950fd209ffabe2b597ff" >>,
    << 28, "287b69ee7e9988a8e00e7237e673e12f", FALSE, "22b4c960c7c3f3a4", "db2d3494", "36bacc20317c7efa15fb7644079bf866" >>,
    << 29, "89d807b037d3c8509ff909352f0c40ae", FALSE, "6748622c072a428b", "6b68263d", "c64df18d86345ab4be67789fe155ac4f" >>,
    << 30, "4c0036a8ad151c2ca23b2a39a5b85c29", FALSE, "4fa081adde2d75b2", "8baef89e", "eaf3ef58f59461e6a57965d814837eeb" >>,
    << 31, "e759e6762b541bcd6b907167744928f7", TRUE, "7bbceed5a92806f", "c6c23645", "8d6eb932131a7fe36a76093f325a7134" >>,
    << 32, "42c73dad2372a0b3d5c4250367a2c391", FALSE, "6607a2285e4902e8", "269591b8", "e84aab3bfd25a1af1d5a19b5b2829be5" >>,
    << 33, "3c39634b9a919744dddf3e33534d6ff9", TRUE, "17f98f8883efe49b", "141c609f", "35e2d65282cfb3841d5439fd35c8e812" >>,
    << 34, "2c0e0560a000f4d8c4287d14588029eb", TRUE, "1f89e95a04a6e8", "c8c91bf9", "6333ca49724fe2f3b974fc6069782fe6" >>,
    << 35, "7cb7a6655c1d6c6f565c97aadd68386d", FALSE, "23f8c1817a117a1a", "ff757898", "ea54df28aa117f86f60b7e0ab6eac4b6" >>,
    << 36, "579d4d90f0df9a1fa445feed4fa73fcf", FALSE, "107e2e127ec8603c", "1bcbb3da", "19ba97de03fb051129b6c6a4a2452362" >>,
    << 37, "6a0bd3e4098e8565b5063ceb746677eb", FALSE, "7f90b3a0efad1487", "231487fc", "e58d4d14b59f32b229631a54fa8d8d96" >>,
    << 38, "971429d4f2695512b437f12ac889459f", FALSE, "7e5fe15f28ca5bf6", "3954ef2f", "fc66bbfca941d86e261173f6fa12cdb5" >>,
    << 39, "5cc35dbc88777ed3eba8592c04974d2c", TRUE, "57c2c3792960cdde", "55d6fb01", "aad1d0a9a64c4c534cfb4815d5e51331" >>,
    << 40, "a7e5d62b7bb9c9845414df3f1ff51f4d", FALSE, "19b6b241452d85c5", "31e0fc9d", "a8a5bc6cd381b75337071a9a3920ae6a" >>,
    << 41, "998b9c5dfabc416d17b46af7f6e3ad28", FALSE, "4c329ddb52ce30ee", "b045870d", "5d4de13cdf3a964381a7a2e18be08411" >>,
    << 43, "369d7a6a5874db05aee7f164b9a0056b", FALSE, "54cf0a67befaf1b9", "5cc902c8", "b90afad68f84474ad9f1c63348ff9ba5" >>,
    << 44, "bf4761c30c4318287e30e6b5c0d71d0e", TRUE, "1012e65155f7ad58", "54b51ed9", "f50a27da17f3dff6c5463ec9bc1aba12" >>,
    << 45, "17eaa4b83a4444e3b27919d92f5384a4", TRUE, "66018ee1b9915349", "9cc7c42", "8e0aaeab4633cf0cebc621ca209cb450" >>,
    << 46, "1227373538c8cedb2d9b63f231f4d76c", FALSE, "430823e9e7c8a260", "652d662b", "bc4df492a3883db6e618192bc7a1fa6d" >>,
    << 47, "794c2b8ca2353ba46ad31cae579519d3", FALSE, "5532231dfdce01aa", "f6c9d429", "f4d1c8d32d8dadb88f00c80f747402d7" >>,
    << 48, "e997143469d032c7a204fe3ab60f9d64", TRUE, "67db82462e009027", "8709edf0", "9f503c641fe91d55b953dd96fc88eabe" >>,
    << 49, "b91bea6169967b1fcebc6027e2b9993a", FALSE, "7fd8b8c45845071", "521ebcdd", "f5303cb592ed1d26922a4391fb094dc4" >>,
    << 50, "19a17837ad284006471599fa1279ebe1", TRUE, "677e47e7d5223990", "d5a3c83c", "8aa23f83d60119bfb134b0c72b826cf8" >>,
    << 51, "fc67320c6f97a44a7c88122561a39d40", TRUE, "246318bc17da0f91", "5573697f", "b1dbc6734c5ea5cef29a67440d57312d" >>,
    << 52, "c322f80c34a37dc40569957a5fa7bfd4", TRUE, "1eb1ac4da12cbfe7", "59031c0c", "b2337099a966557d6f3452902d3a4841" >>,
    << 53, "37d6af67e0ac1ce3188611364b8325f6", TRUE, "6aeb4876fd236654", "1162d9fb", "19749f24dfaeb522c5917b96fcd8831a" >>,
    << 54, "5f8b7f28876314eeccf1ba5def133849", TRUE, "2507e30ecdc226ff", "63b01bb7", "525e9fe6196c2cc832178a533a1838d2" >>,
    << 55, "bfa1659990f3141e80c919a6b91767d6", FALSE, "2973b9a3e7c3d6be", "6eff7c50", "959f858b166d125f75e4402e6eafd89f" >>,
    << 57, "c5c179fb707722a9608e4337e876cbda", FALSE, "25452e7b3e93dea0", "6ef13783", "8f5d88f5559c0f125c0402d875d824bf" >>,
    << 58, "1ccf229d2d3eb07d45ce80f30dbd4ccf", TRUE, "5ba21f3383f73bef", "485d44a9", "5702f5312a0533ee398eb0a493cc6fce" >>,
    << 59, "08d67e5c9bfbed87a719560e8ed71d1b", TRUE, "26c5d50312a91cc8", "bc921c8", "54a1934e27d62a697306ba623e113bbe" >>,
    << 60, "1ac3661d138ef9c5a54c5c0a36d8d0a4", FALSE, "46f52561d577ab67", "94f8ffd8", "bfc1eff01c80bb80259a5474a3223925" >>,
    << 61, "b2515bdac4f13ee47f9fe90811732354", FALSE, "278448f4003e427a", "d6150739", "c7a55ea63d3746387b42502f8b8b6ddb" >>,
    << 62, "4dbf7dd798788b3aff4a32ffc324a94a", TRUE, "62087d79e9d4ef85", "c5f06776", "175572cba2b5c9e16c994de10857c632" >>,
    << 63, "823edd3c462e76dd8146b7d58b9eccc3", FALSE, "5b9e0d98c302696a", "54b4fbc3", "c40d8a8cbd83baaede9dbd67f62047c6" >>,
    << 64, "ef9ff587be4917a19a1ec446723c91a7", FALSE, "62e2b92c1e021e58", "ee5aefe9", "4855af0074a8c48c34fd2bccf1135cba" >>,
    << 65, "a566f9d178dfd3a65165bd52ed195fbb", FALSE, "2c7d6388ec5e7989", "173a7b03", "543f5bfe7f98d2c7afe30710338d621b" >>,
    << 66, "4a67d05c161e516814edadd6647e86e2", FALSE, "1089d530c61f93b7", "875e9ed2", "e2277b9738579c9b2d96a2cda0e3eb2a" >>,
    << 67, "7d4fa442b9b1cbd93fc4601265989b72", TRUE, "27db9b98be46caee", "faaa1922", "3df1b8f947c7f8785b581d3ca077e07c" >>,
    << 68, "ce687e32c629fbaee687edf82c55a9e8", TRUE, "3c7a5c5b866260d0", "e28b8766", "ed8b66f5d3d94f7bad686a6ad446ff6d" >>,
    << 69, "467a80a5211f133dde53568772b7a7c3", FALSE, "59aa847e8c1b5f7a", "4c739d6a", "2e3caf093066e33f1b0eb2f77f4f5dc6" >>,
    << 70, "71585efb84fee114fa0a9bd2a7129f4d", FALSE, "fafd8aeb41e38b9", "fd2b0be6", "2c10daa947e2ba07e41b4344db59c5cb" >>,
    << 71, "4720cb40a8a58f15d0c0bcf87ac611de", FALSE, "18ab01481db38439", "cf1bf284", "832d3c804365a26f6c1f50358d941cd0" >>,
    << 72, "90eff86010f1425a16f0c4453e83a6c9", FALSE, "4bdfe5cc11ac3efb", "7f0df640", "c92cd5a546e1257db40851dfd8d48857" >>,
    << 73, "8a8b19be6e01fe5c8667afd70f95e4b1", FALSE, "1c75bc9822e7b1f8", "4da72612", "62e5e13a3b92891b58ec1c89b5c99400" >>,
    << 74, "3e50908131553bea18b8689f33ead31b", TRUE, "511165e550378907", "19ca617d", "cf810c14ef8f3e9546bd52094df8140d" >>,
    << 75, "34f047b6b2a03671ad6e1a571ab71053", FALSE, "a3b0cf60fe025fe", "6d8cb24a", "1552029e618585fe3211f40e99b8fb39" >>,
    << 76, "56ef5d8c900af8ac9701ef668faf603a", TRUE, "66e2c45fb4d8485c", "f1b8d09f", "15c33374d9ce4993e98f8ce23c13d955" >>,
    << 77, "ea9e21f46c721f0bc645123ac7d2a157", TRUE, "794a14dbe84b65a1", "62e04f24", "4fe9e7bdad3a84ae27d50ff7324ba71f" >>,
    << 78, "2ceaed3eec09115b02521d22161f3b98", FALSE, "5294a71a78fbb646", "ee5b8d4", "639c0377b8f2919afc180988e1f64d27" >>,
    << 79, "e4b88483748197259ae7b36fc4d33939", TRUE, "87f0cacf2ace0fc", "b434f2a5", "6cba062d6644d2c5e70daeff8d88469e" >>,
    << 80, "e89a6772d7623269b1fee2dd3ff9e995", FALSE, "3664a0204b73ab7c", "8b3cef74", "ae2ed733fed79a9e6f7de57731c15441" >>,
    << 81, "c35ffda9d5b1bb9dda4612e2ec708892", FALSE, "5453cb737b4c6936", "a52e2bd3", "1cfdd31be940d03e263ff9cbe11d0c25" >>,
    << 82, "b77ef2c06bfc48d29225ad13d0f0f5e0", TRUE, "752d847f9b199946", "f2520501", "8caa25511627d4948c8dbe80f7294833" >>,
    << 83, "639144c04cf1b97d087fb3fe3d89587f", TRUE, "3edaefba58e15daa", "7c64f17f", "9952ea20fb9ea627bf5198aa0d4d38cb" >>,
    << 84, "a849f05c722a90f14d04941cf3770038", FALSE, "7ae483209173c87a", "44a9f1c0", "ef5404cc2372577ec3ae144fa23d55e4" >>,
    << 85, "0c08dfc40da3ec96a2bd48d586463381", TRUE, "7fe82ff7100c8b25", "8713f02f", "dba7d218c2455538da7f0aeb0f09f76a" >>,
    << 87, "be0b18d8ca1714a29f4ec51a79e90c5d", TRUE, "78988762fc657fe9", "919b0d48", "fea94bb21467eeed5ea3182adb1007e0" >>,
    << 88, "39c8af18e49b5da256cde5ccc9977a65", TRUE, "5ebeeb6c6c312ec6", "e7f3860b", "363a9bfdb40d5c73b561ad3acb2140a8" >>,
    << 89, "3ec21b3e54df6ab3fc9b92b9e2d97c14", FALSE, "4fdbd737dfd15958", "15dc247b", "7abd6ee3dd44bd4c387e652569cddce1" >>,
    << 90, "0d52ee391a11eff716cf7062018366c7", TRUE, "3af1e8e10fd10d75", "7ccfc783", "97df52a1aa5c6e358cfdd566c41aac6b" >>,
    << 91, "6985e9a2b4192cb207722e7adebd1216", TRUE, "35768cfec5e91528", "59233718", "5810598c64e457650a0618af4d048aef" >>,
    << 92, "f7f6834fd22c7f460444d7db05f123d2", FALSE, "2af57d5d66a8e4be", "50e09189", "c67c2fd4c30b70f34f8c6e3346361836" >>,
    << 93, "6a7da42fbe938f98a12ff88179fce6ca", TRUE, "7bfa6d965e11607b", "8da944b", "4feb7c4db5bc947f2f7aa8a0c5afc701" >>,
    << 94, "b63584ef00cb802996c7f2213265dcc9", FALSE, "651e402c40b5e644", "de987ecf", "57f3e057003991deba1371fd05340c8c" >>,
    << 95, "534958109fa72069faa8899e65f2718c", TRUE, "706e06f487ecd818", "58ba125f", "0dc67a0fd7a30c0e1b8fa702b755418d" >>,
    << 96, "1e52500d03624b0a7f833196513cb3df", FALSE, "31587b09ce17a116", "239dc989", "d075d8b21b41a0fb1b86ca7aab8d3b1e" >>,
    << 97, "6de952712b53b9699b87bc4c28def99f", TRUE, "7a4e664f9784f4ce", "6e269b49", "bb46af04eac0d1171c05b635e4e909b1" >>,
    << 98, "5605e91536651498f6b4ee8224f0f514", FALSE, "ff71852c9306700", "c2868565", "6c1a8587938a14f67735138a3e9ec2b6" >>,
    << 99, "f1a3cb4295a653a12b045938cac56fdc", TRUE, "888ad2d1ac887f3", "c00ef3f2", "5bdf490aa21f9f23dd97218eb071176a" >>,
    << 100, "b6ee464961e3300ff427d50f9c680d6c", TRUE, "6beb226f2d3a612d", "8586b182", "0d42c8febb145ed44d504c2d607be279" >>,
    << 101, "22cfd98a384b1a395197833f558724bf", TRUE, "332382185116153", "42a53e39", "40eff8e02305c2fb7b4420d57cf5a7aa" >>,
    << 102, "452a59a407ec6e79b8f3387ff0007cfa", TRUE, "5a4fbe8f0b5656ec", "db1d48ae", "89a3a7799ae00dec6de893c127c23260" >>,
    << 103, "af63762d889c66290e606d6fbece5e81", FALSE, "1a43cb2f91ca62e", "c2105de1", "5c421b5d3856e791c7716391e23c2ee8" >>,
    << 104, "da2e9386a9b1af36f3292cf41e29f35d", FALSE, "38aa1cd5eae98a26", "1f78411", "0e3e211ba238b11a44fc500210bb1a4c" >>,
    << 105, "27edc0ca862373e9eb9c33339d9535b2", FALSE, "1fc965cbf1eb3dbe", "1f15b711", "0be6f95ff7367c00ee7a210ad55923ba" >>,
    << 106, "964c3adaa9fa06328443838891d7a1b7", FALSE, "41729c55b215a1ec", "1f92398a", "877997c12011751484a7d81d85400800" >>,
    << 107, "be4be57da7f8f80a956cd1b21e8e88b9", FALSE, "14379945421335fe", "486253e7", "f9c30153e1f3985ab4a57ab3be4891ad" >>,
    << 109, "6a5e953d4b401e74baf9803254b551f0", FALSE, "199f510218d42f45", "c615de91", "d4fea1e24e9ab4105f9ed8649472ea18" >>,
    << 110, "34d37d3003b1a7700ac636c8e915a78b", FALSE, "173db6a430b39a17", "8a459f68", "9f2e5698ddd2276314357d79abe729d3" >>,
    << 112, "d0ee7251887a82b094db43c21e6d0fa0", FALSE, "5aea9a3766dae6c", "21222c6e", "a30d1ab2ebb8edae9523774bc45d1073" >>,
    << 113, "b83ffe704d7ebbef0f76bbaf111d6877", TRUE, "65192700514a2a3a", "7dcde084", "a553a77d7379837438258b208b4120e3" >>,
    << 114, "b0fbef1d26cad1889cdd69382685571f", FALSE, "5869182f05aef449", "2e07fdaa", "7312f27118858f6c02e136fbeec7d138" >>,
    << 115, "aa9084976b8006df2c9e346190782752", FALSE, "3c097c3529162542", "e148a951", "ca1ac42e13c4a9adec1df0d3ef74eea0" >>,
    << 116, "abfbe9caea81a409d5054ed39404e5ce", FALSE, "7d5265076ea72981", "e6ef3f88", "92544a35e33c3c38c8d9c667945a394c" >>,
    << 117, "c0df19174189d0a316c67255da519e22", FALSE, "351a5eac13c24892", "2b44f5de", "7f8ec3e47faa37a2213f5f55c2531058" >>,
    << 118, "fd558d5194c7e51db43fd239c38bfb8f", TRUE, "2a3d19bdae8dd7ab", "35010a20", "afeda60ff3a5cbfefa40fa975bf2144a" >>,
    << 119, "2e8b82b488a249d8b92c5d4044d43ef7", TRUE, "2b73681e4050840d", "9e63d90e", "e15eb86f242a224f4fb7a4ab70a86d32" >>,
    << 120, "7e8421842d92373d36df75b74ae6a92e", TRUE, "45a3aa50782890f9", "8f39c828", "5509e68e94e7cf8fba0a2024d4bf4564" >>,
    << 121, "f25a5a17c42ced91b74fc3e80e6e42f0", TRUE, "739b7c887b12c836", "d97bda30", "2e537bbc1fa112715593d53839ba2231" >>,
    << 122, "f095416aa99e85b3d752766eb4fb7293", TRUE, "132f2f4ddfa6e03", "3031ac0f", "e003c604c26cc916cfea006c6faa56d8" >>,
    << 123, "d974a4cbd98f9538d3210974dc8a7972", FALSE, "76c7e5c510650ca6", "8b2c888f", "cb0afeee7073359918992fee12682cf1" >>,
    << 124, "c9a6f24b10f151ea6ce92a310c476082", TRUE, "4b07ed9f8e250fe6", "f5cb31b5", "54f5a8f6d11aec56d9a5a9ce5582e7de" >>,
    << 125, "a59fde4e39d0a7cf4e89b18319604f94", TRUE, "232304088d64489f", "208674b2", "c6f093f811c06eaf900cc5a7ddfd125a" >>,
    << 126, "5863aad4c7d9a415662d42fe9b403f76", TRUE, "27e3c4e99a0a3d7a", "3ccd9492", "901a357a74733c5b1913803efa3665a8" >>,
    << 127, "40c48fc142dea37372824934d54c35e6", TRUE, "7f3af84bf838c7b1", "a9857312", "6c2b5aed31d41bf158ad57d52afbf88d" >>,
    << 128, "a80174f8dfcebbe337e22827ffd11137", FALSE, "10d6c9ea2a8ac316", "8fedfe22", "64654b7c8e1b48c9e134edf974d123bb" >>,
    << 129, "b69e6bf7a2dcc7c4893139c53526db80", FALSE, "135998609075b3b6", "2053efae", "7de88efa80a3c428bbc735df3affd2eb" >>,
    << 130, "698558b40f0b81ecff3bb6889bdb7ae6", FALSE, "766b0ef8c3a9f6f0", "b58d7953", "06c41709cb917de8d96f65c6b24f5186" >>,
    << 131, "da83cc4005ed8be107c06d73b32ce99c", TRUE, "41d66b2cc04619e0", "770776d7", "f7373fd068688afb240c6a7e5c8011ea" >>,
    << 132, "e523965b15d20244bbe213aa85d38fa3", FALSE, "3781f9f304158c2e", "dd3f1dc2", "057500b09a6d31777669fcf996d0f271" >>,
    << 133, "453c77bcc71e1cbd6368c0f9afdea7fd", FALSE, "7c1293fb91f9eec4", "487a01cf", "bdd97fc1399225b56b4604d1448ebb67" >>,
    << 134, "88588aa7c3c16cec658fbea79c023b7c", TRUE, "fff7e92bee0741a", "debce933", "86eea5949ec184a42d51156d47c2a05a" >>,
    << 135, "17fd4a395538793ce09f7b73c7b1ff1f", FALSE, "4054846ba5443c0d", "c865d288", "2065ed8a5a177ba315652c87a037b4fd" >>,
    << 136, "c8f6656f4df55c4774e1eca5d9e5a563", TRUE, "74234bf188187c55", "4144e75b", "69498b45f94ba1dff37b6ca9a49f20db" >>,
    << 137, "6e57a98e72e62a1d2bef37b1cd0f3626", TRUE, "476ca2048bae1eaa", "6548b222", "f95d22386e7c28f60cc4aa90e44f29df" >>,
    << 139, "90231ac36a32b6defb9263516375d32d", FALSE, "3d116303489dca27", "10666158", "d8cb32ff84add60211a139d25a49f0b4" >>,
    << 140, "26ef2da1b1593cf050966eb6c2121b21", TRUE, "1a9a2ea16eb0432c", "23e711c4", "89371de556d0e5b5c44bcf401af28178" >>,
    << 141, "21e341ad097473539558c41d5bbaa1cc", FALSE, "2e18f9d0730542d2", "1700b4f", "998e5698fd307b149a4ed2b4bc3e0bc3" >>,
    << 142, "2c50b152948959e79ebc8e9e91da9fc6", FALSE, "4d1ff7d87d00abdb", "6ea70579", "5c5ea8de8d0d5d2d53bd7c6a0453e92f" >>,
    << 143, "b37d6b670d8d16102d0d2e8cf4825f75", FALSE, "2c7ee1c1d2cd06d6", "1c79f6ed", "8994d02adea76e55f1ef39588735098b" >>,
    << 144, "cbe9c8c35872093dcfaa8528101f4282", TRUE, "5d48c682bdb2d3a1", "374a9121", "71f0e72b28cf01dcffafa56c7123a6e4" >>,
    << 145, "ba613cf65934e5b6267eb214edca71c2", TRUE, "19042732d189a291", "e8372b6f", "0577332282c2d5ff6aba65165bc968b3" >>,
    << 146, "56302cc94dbcb44f3d3f3cb02d737dc0", TRUE, "577b2ed75e70f277", "1e3ab2b4", "bd69239f72d1100c727a99b666613e1e" >>,
    << 147, "1baf1d8e72d259427752588a11847761", TRUE, "7eec044c8d243deb", "6061b071", "1730c15095e6ef1b1008b09302ba62c7" >>,
    << 148, "d946ff9a7fb9056f62b6ba5836fef61d", FALSE, "51fa0348892a4792", "60f9ab6d", "1c5d2ea165e440e47ba259e926c5519d" >>,
    << 149, "3088d2bb52652948142d461ca7a03d7f", FALSE, "4c1739d872644f7b", "a54173ec", "66fecec101b21ccd4d61b89a01fe71da" >>,
    << 150, "129ed17ec07daca0d6001feef12044f0", FALSE, "5b6d1289ac0bc958", "4b3dcbb9", "d6643997612ab7c9ddea92a3075a33a6" >>,
    << 152, "a5dcbc3013a0313520c3f46c55bfa424", FALSE, "6afcd638c5f55b77", "1b68c16d", "948056a75cfa3a409c8fe019be8da687" >>,
    << 154, "4c162535f02049a99b6d2d9d2bbf6aab", TRUE, "43e0fbf6e454ebb7", "3c2f87de", "fc21e68de2365c8e87d0cd66ea50ac64" >>,
    << 155, "a1da7ecfa24299e5a5cbf3c2ea4f093b", TRUE, "4830bb05ecae2895", "7db651d9", "7209220a82fbaf1f57094924c1105d7e" >>,
    << 156, "1730bb497d889d73c96d01bb9592807e", FALSE, "4ac56cce7f8f4ce8", "a1819ea4", "0314136ba94dbd87e096823477f273c9" >>,
    << 157, "671fed857990bcc6e7fbafec9da42b8b", TRUE, "28a38770709b0f74", "aa235e1c", "75d33c43d2fe6464879a5d46f949fd1f" >>,
    << 158, "a1e373c1d7b639f9ca653261540206a4", FALSE, "2e61ae97780282cd", "cd334592", "ce7dbe950ab14129eca9af2b9a780950" >>,
    << 159, "066fd16c558cd9835cd74daefcdbb1c9", FALSE, "5ca4bd8bb4d935e2", "91398ab2", "12ccfcc32b4bfd478f55875e1d20c878" >>,
    << 160, "2fbb02ec06cb9bbd76285664c9a89109", FALSE, "26cb83652207e492", "fa23b8d1", "c5f70eb58e047bd35c117d5d51e03715" >>,
    << 161, "93a643cf7fb6aaf299033451286e41a2", FALSE, "6f7993dfed067b31", "50d9abe2", "9e552a079d8d7bd8ca3f867ec0018cb7" >>,
    << 162, "8b4842b7091ad15ecb6b5f2e053154a1", TRUE, "4d1d52ca3bdf385d", "4f4c4d5b", "5ef6eec55e840582096debbd3fb701e4" >>,
    << 163, "3818dad41dfbca3a08243fa8c865209e", FALSE, "42f8ea3f94c9ab0e", "3cf73852", "d2bc98ddba0e4c483e4f3d64c5c7995b" >>,
    << 164, "77144636a79b639977c7123012aa62e3", FALSE, "9c113ad35e67899", "1f713058", "67df9a158a99ac9343fd2fa5b6ee3900" >>,
    << 165, "e716bf83f2d227bf53e84df584291752", TRUE, "5a8085f748a03abc", "446ad693", "243d8270560bdd8dc12a6adfe59ccf02" >>,
    << 166, "02518dde9fe087b644a984e41fe68818", FALSE, "1767de52ca72b1e1", "3cddcb72", "135cf2095e7b48e6148c558fbeadbac4" >>,
    << 167, "794c8279c2b103720471a53802d7643c", TRUE, "72b9c9fa276cdccd", "d15a113a", "2ef175f8670f8223c0808a15b5f2847d" >>,
    << 168, "c79d92054ebb98326fd082f8e8caa602", TRUE, "3812a99479fd65cf", "c62bbe72", "da5435e1ce3f18c747851bfc99f371f8" >>,
    << 169, "c6c37686e8cf48d14bb67e96264db921", FALSE, "79e05cbf80d9c446", "4927ed9a", "bb9c69abcae43bbf0d659d199c3e6384" >>,
    << 170, "aea02c4336b52dd118cfdd06376200eb", TRUE, "125cdedd03a907f2", "f4665db5", "21397de8d1ec539d00313c07d970e839" >>,
    << 171, "efe2b0743b19a9e4b8c1e323471962fc", FALSE, "4ea781e80e1589df", "bd1714de", "1e17ae81a7f3d5408082a961046fe43b" >>,
    << 172, "54cc9bb88841b632d1ef417357387340", TRUE, "3e470ccbe8be0954", "d010920e", "6722cc8fd3898f32243105cfb3ebdefc" >>,
    << 173, "061633c5a5fd73b7321d8cca3dc4ea84", TRUE, "56cb342037538cb4", "a8d0a6cc", "5d99f110e3c699dcfba4a7091697ef22" >>,
    << 174, "dc41cd2662fe503f2ba362ec26fbdf2a", FALSE, "4053f103cfa3c547", "f314c1a4", "6e92803583d952b004f57c6429299150" >>,
    << 176, "169fd1c06dad1e763c24cde3c75bce43", TRUE, "5713da967a687b16", "ae1fb3ac", "aa7396823eac541454765b623e63b4ac" >>,
    << 177, "8bb508377b6851381a1dd7e69704278b", FALSE, "64d5474162dd9571", "ebff8ed9", "e21d6e51a1fd9f1107b2e23ee9f2dc4a" >>,
    << 178, "69df86715e990bd88475fc0f6ec273dc", FALSE, "2ce0555fccbf1743", "1c8ce073", "2067966b45b4a143684047fa7d0df622" >>,
    << 179, "d5212524e7b4d8a91965e04895a78f90", FALSE, "d7db5a236b14fe0", "685df77c", "ab7efa595664e8668707cae7871cc3cf" >>,
    << 180, "9d83f8246b325b04f2726fc4785da9cf", TRUE, "49b77ea45e4ff9d3", "d32f8c52", "a8ca37ee236e81e28a50d313122580ec" >>,
    << 181, "e80ec02a14d175ee21829ee86251eb99", TRUE, "f9f8af9ff1e8990", "5c129441", "64dbf64ed2b7a93d186c2edd3ecc55ae" >>,
    << 182, "58cac598f639bb6e56b773ad3eba9431", TRUE, "6fa1cc6d62a4a3da", "65b37277", "250147525a14e09d9de05459f5a50df9" >>,
    << 183, "f00e8a240c4dde9deefaa726efd16f1e", FALSE, "29b33ed96f33f7e0", "42e0a1f5", "ce1af01e9ec1e6bc07486a617a8397c7" >>,
    << 184, "78bd6477344e0ddd538a0b2538908880", FALSE, "1f2be8a1d45cbaaf", "6c464ac1", "4f35115fd1914c939478eaa926647eae" >>,
    << 185, "dc03d7054531ccefcd0ed30077d0ecee", FALSE, "c3e422ee5f3588e", "d64ad6d1", "29fed75b1bc3ede724cfe8c634ca3029" >>,
    << 186, "ce1230bb1fd7dd9de8c284d929c9cb58", TRUE, "1de37c7a4b092c4f", "e3bfdbbd", "c5b50fa7353bd07d7131e6fc12218dcf" >>,
    << 187, "f7cf4666465539620565e8b6bb40ff72", TRUE, "2f29222cd10b9725", "c96e7d56", "83487e1ed4daac8a4a11e0c413415758" >>,
    << 188, "8c651745847daa6dccaa34c637e10054", TRUE, "36d567d94f70f9cc", "f50ed72c", "3d711aa997e54b1ae20f1ff9bf1d8b63" >>,
    << 189, "8061e907e4963453bebf3899d866c7ce", FALSE, "26a1b5b850090b8", "22d55d9", "62038de87a205bfbfc5fe6e3f893401f" >>,
    << 191, "50c385bec7ad1361985bf38086b6528c", FALSE, "7ef71dffe60d971e", "74b47e1e", "d4494225a7e3426a2a90145d9fe23a29" >>,
    << 193, "c50b1116aec9fed077cc4269660a1aac", TRUE, "5ef4e6f7e4d4d532", "f1a11039", "1c9aa8babc82a50b01e11875a5671891" >>,
    << 194, "ab49dedf91046c53a4e88bcc12a65194", TRUE, "6661f4060d284dfb", "3198c64c", "0d4cd9a15bb63915d12b074e57ee13c9" >>,
    << 195, "bd154580c99db441d3b08ebdae66a67e", TRUE, "74b4ae244efe090f", "e0c5613f", "1d692b454f8f6d3d41a4a807057b0a94" >>,
    << 196, "e985df9aca6669f4c894b68a0a0b7dba", TRUE, "7e7ba08fd4a5c8c8", "124f3658", "5a96b49adc40bfb5fe5d4665fab8d706" >>,
    << 197, "e2619515db66fa9004dcc54a79249f4b", TRUE, "51b39dfb7598cf55", "b3f3d4eb", "1b80236513b814751ff9b4e01b9b3772" >>,
    << 200, "263326f142a7e5a5e30952869aa8b68b", TRUE, "20665ab6a898cd40", "7e8e7e4a", "ebc991ac86a2bfa2743dadea98c7aa2a" >>,
    << 202, "76c537c9deb4e7068813b49ef7aa1c9a", FALSE, "63594cb3f0d6efde", "597d6e03", "01481fe7955213b7d15bcf21fcca3bd3" >>,
    << 203, "46f23e838fd6a3e81bc3a9a5c0e9237d", TRUE, "2da8c89a834076c4", "499674fd", "b57c162e85d8fad94ca39e46423deed3" >>,
    << 204, "235ba41844c601245f0efdbcdaf6bad2", FALSE, "4cf2bac5dfd34aa9", "7b7144a2", "42ace145a44f0889e98ec803131b7ab3" >>,
    << 206, "7347e10221f6554c3bc6b882c8c2587b", TRUE, "4369789dab870710", "e583d12a", "4fb3a745cbe48403dd16e9e92683adc0" >>,
    << 207, "702591963880ec800718f728fd77d436", FALSE, "499ae093b365aa93", "5a24f1df", "24847781dfb5056e062cc10bdc7adee6" >>,
    << 209, "049ce704c8344c9b9b006c1fe62235e7", TRUE, "3447877eb567313a", "d78424de", "7d2c757a0e92c456e35f9595ff706b18" >>,
    << 210, "6ee3a334825887e3b860115d50a7fb33", TRUE, "73f248a22b5acc54", "bf04dbbc", "64f61c813908df30bbb5c6cf63c67e7c" >>,
    << 211, "da40d155f0eb0ae963cf6be8472a307a", TRUE, "2e4554a78251e323", "5a872dfd", "ccce5ae64ff9714f0b9cefdc09a0d3d3" >>,
    << 212, "4faec55ef71c2ab2c4604b2765cdd17c", FALSE, "8e24942bac21241", "9549858", "991bac9d1a686fc5a1855a92741dacfa" >>,
    << 213, "1c92f720ae46f9b0b676c701c8290f8e", TRUE, "4eaebb3f8931af82", "ff81a097", "a0193be794f48a20b2b8f5748dcfce45" >>,
    << 215, "39a3b95a6c797b83e6d549f5f7ae0839", TRUE, "3061d731c42b9997", "723a69b1", "da36037db0074c4b018d14c1ef5b40b0" >>,
    << 217, "22c9fb762802177c5f8369723d07a3c9", FALSE, "40f7b673e2415ba0", "1bbf6cad", "4d9b7297236195c915820a6f6d054fb9" >>,
    << 218, "b0001ffce149b43b3961872c39cc91f4", TRUE, "3bacc039248a34dd", "66ea42d3", "54c2a8187cdf927e3edd83c69f58daaa" >>,
    << 219, "2531939fa53f257406373fa8d2f0ce5a", TRUE, "7718e557b2c79e04", "d8e593ae", "6658588d8651b46929f5b901688a5330" >>,
    << 220, "619a5f92d31baac740ab8dee3eacddac", TRUE, "2502404741300d6d", "f850b2dd", "7d99a9c8db36d5227f4ed27d3efd8977" >>,
    << 222, "27a874f05eecbf9386f04f1cecdc5fff", FALSE, "7e0ab58fe343212f", "14fd162c", "a13b862741615d0c5ff7775b6e691e24" >>,
    << 223, "1004fe8c03a6318c1c50b10487198bb3", TRUE, "1f2f04b41d8eed1d", "35b831ab", "e064f496c6af86973848673fd6c18b2b" >>,
    << 225, "70ba255e4011c01e646e5d1eeb0ff8a9", TRUE, "4307b8f4a80011b6", "47d7c02f", "a6a7142f95227beb9c694fc0cefcfaf0" >>,
    << 226, "8269194f1c013a766ea016ba80109502", FALSE, "4d0a34c4c68f1773", "e6899e48", "e9326484c9bef72282d516701c71adf9" >>,
    << 227, "b9b44353ba0dfdf34fc22421a37dc780", FALSE, "7b93fc01d57f1e1b", "bf317353", "64707c2b77281b9899d0c6c299f0501e" >>,
    << 228, "274a9dd40cca006a7954f1a6464338cc", TRUE, "6d2214840d4acd22", "c2007cd", "0b1e4644cb7e6d11ef0cbc238e1910e2" >>,
    << 229, "8a6b54c2b53ded9b9d11e745af06184c", TRUE, "392af99c5809a4b", "37377e74", "c48c86cdba93b0226e8b20fd68729e3c" >>,
    << 230, "062c2c07dad05739cc2fffa09954b4df", FALSE, "1583703ef1187006", "5ab814a1", "e243979f115d875d824981d17e4dc5e9" >>,
    << 231, "8d1a8a63f78eeaa82cc8d58a2b060b51", FALSE, "7311b03da3a2e575", "137a0300", "d7e94f60dc2fe4aa28be2960d005363c" >>,
    << 232, "854b4d1d0d9852a31fa116a6c3adb628", FALSE, "7e4a1157b0464f13", "e4f4604e", "5d7c4b085acfa2291a08c600125f9dce" >>,
    << 233, "f2ee9348a9d11dc5383d50bd2acc3f29", FALSE, "3a04034b23a71976", "9ff7b091", "fdbbf6995c6c5e1c2687b0e0b35e86ba" >>,
    << 234, "94915f4dda831b8592ad489bc6251a86", TRUE, "1350184e55b8bc39", "eb692098", "7f4ad2fe691078fbbd4f4709628986c6" >>,
    << 235, "5f1ff7059ff2bb417d6362a9a0d46b57", TRUE, "3ba3c19d147b64e1", "c112a72f", "301b51fa85aad1a71180773c70c08f73" >>,
    << 236, "d21391e77d3b183f59cce7e818a15160", FALSE, "7157999d9abc166b", "5c79b2d", "9041b6d1ccaaec65c4d59e437c29ae7f" >>,
    << 239, "5f5190a27b29f5da25a5328e4beea566", TRUE, "1653bfcc79667dc9", "5685a8dc", "0536f3235da3d7a1a3cae6da0dab8438" >>,
    << 240, "1fb18ac285b60b70909e9aa686c6d7f2", FALSE, "32cab6585ca0af69", "6495f81a", "cf025c272c1230a955522d4476b5f70b" >>,
    << 242, "86b5e626c2a27ff9b2ec33216a5101b6", TRUE, "56ec7e19f2b7a016", "ff13357b", "b5d654df4eafb2ba0536c38d6f3be4a6" >>,
    << 243, "809d4f65dd84fa731815ee61ec7872c1", FALSE, "74d4137f2815e065", "c5909db1", "24b6c4c000a0b56d3b4b9f98b217dd14" >>,
    << 244, "b3bad4d6b90d46c2858fcb6200f2a7f7", TRUE, "643bcdb11da75fa9", "dde876b0", "354b2eb310e52b7da4c347bf5ea3a709" >>,
    << 245, "26342e092b860db715da2f7ee38474c9", TRUE, "45930aa6d60fdd82", "f0c7bca5", "c3e7b3c2ba7940f95f35b2b60a5fda4e" >>,
    << 246, "97490ad1d3e67458826ce19d443b3580", FALSE, "7d97a73ce0285ab6", "7238bbb0", "c4305e44d6118c302480c7c227e0abf6" >>,
    << 247, "8bae788454b5edbdc7accfd19b1986cb", TRUE, "4abd3741fb77a2c1", "f5cf34a6", "acb2fd8fbe21fd3a81bd946a715fc8cc" >>,
    << 248, "5ab64b2b5199cb9aabba1ea158d93a66", TRUE, "223ab3e987adf72e", "2e531fcd", "3992bdd4758b994f18491bfcfa4337f8" >>,
    << 250, "3ff23ce169f82635ffb1c621e9d48a67", FALSE, "1460dc8de78befd0", "c33fc84b", "c346b632571703593cc037641fc7c1eb" >>,
    << 251, "ae183da3b1ba27f61e68f701eff6ce02", TRUE, "7f370f1153950a47", "5c43e31a", "58a365dbee9388fa832a92bede5a0449" >>,
    << 252, "807c1f877ff28914126c593a60d5b663", TRUE, "25850f71ad48d2bc", "604f485", "13e3232cb9efa03fce1ab337e0b5a021" >>,
    << 254, "7e1377718e88c4d3a630da80a31f728e", TRUE, "25a2899dfedbc4ae", "dfd0ea1c", "3f3ef1c74d3ceaaf5686cb93df1fc565" >>,
    << 255, "b45affc45f72b8e8431fff355f10c2cc", TRUE, "281b543ebaeb2007", "5fb32bc8", "2cdf9df66bfdbbd94979acf6dc20e441" >>,
    << 256, "8c584c645842d24e3578325d84b80f10", FALSE, "49eb8155db796381", "76d64eb6", "48a7e15b08840369cd0924297be95f63" >>,
    << 257, "1cf73b61efcc02471577467c55889277", TRUE, "26f61540ad67ca52", "d8ca89ec", "7f2396d358e8e2afb5e2bd9df421a83a" >>,
    << 258, "91b92f16fa1c074cd877b4c231ccd15e", TRUE, "66c54e7067b05100", "44f68514", "7c4b3e20edc334dcd27d94b43603f196" >>,
    << 259, "9d60edb993c44f2d75451cad5a5e3b01", FALSE, "32a8663495f0fd11", "1896028", "5f1dec7e9a2d4be270b4b81e564d5ea7" >>,
    << 262, "69bae139264d48f0c728755210debe7c", FALSE, "33c42b7613e408c7", "2253c257", "ebca40586d6d486381f35ed75410481b" >>,
    << 263, "1037abf328c8eb0201166987411d2d11", FALSE, "389238223256b763", "a6701824", "eb8c631a67079a3f2f6009c32e2ccf3c" >>,
    << 264, "328dcfc2ff31ca9425343279286c5205", TRUE, "4c852b5d76ffa271", "c5cddcbe", "2beabd08d2567d325079978f3da6e84e" >>,
    << 266, "e0f5742373f1e94c83ff2b9c06bbb7a8", TRUE, "748173b43d12103f", "c3c6608d", "4b349c4ce5d803bccfb37d6936712915" >>,
    << 271, "9bfcb3a53cc2023e9d55c05030c86f63", FALSE, "8379a06d44decf9", "5fc7601e", "be2c2a67fe99ca83b12227a27144fac9" >>,
    << 273, "f19b4b4273b6576166e7d0b281926598", FALSE, "7de9e061446eb48d", "d22f270a", "d5daf544c0e1f81efbf9f3a9cf9b9277" >>,
    << 274, "4e0ac7c861932f3c5237d8ac9ebfd7d9", FALSE, "3b3ac4f797ea3c18", "b5ef0d99", "3ccd51ebe076472c166d3011a2d6bb52" >>,
    << 275, "f2f6e3bc0f6659e6efdb3401b0d525eb", TRUE, "61263528b72db8c5", "e6414918", "57bb62ca2772fc82aab4c5cffdeaa287" >>,
    << 276, "deb1faa8f33388473f066f90ecbd35e8", TRUE, "6a3697d1558115af", "1bc02e32", "ef336ec526cf8a83f3565fcc147227e2" >>,
    << 277, "8fb8ba150c4e080fbaa2515512db6215", FALSE, "70ab09edd292a0f6", "684b69fd", "6d6d9793c3dbe5aa4aa283d0a378f3da" >>,
    << 278, "7fd383cb2e255887db03f1e138516286", FALSE, "60f4bf0e112577a3", "aa81cfdd", "cf08105685b2534b4cb5d3d561f8279c" >>,
    << 279, "e3925aab2fd3251e075c5fa815da2e8a", FALSE, "459c7632f47f2ac8", "54ec0fb1", "31704c6f2331d0618753e3224a2aa4cf" >>,
    << 280, "1a629a7cbd3ecf97ef894d0c2a3a13f8", FALSE, "18fd6765250c20d1", "cb72f19d", "1400a5ca6732e7d6588cc566430bcbc6" >>,
    << 281, "7ad674ca37058fc10bdfa155532835fb", FALSE, "533885f0e97afc85", "c447dead", "32e7cac0627caed4858f0f884962c631" >>,
    << 282, "bc762a7c6cb06208c22f8f5988a453a7", TRUE, "4e902e5b1767e239", "2ad0f2ba", "87deddd377fcbb10908aa57744f04ea9" >>,
    << 283, "ab78e29bc280dd5b0c37a4547a04500f", TRUE, "7a15f79104159ce1", "2f665714", "68723a924f31b24ce31d7de9b3e05dd0" >>,
    << 284, "7682b27e22516bbbbfb37ed26cbf76a3", FALSE, "3c904e8e069c4a6f", "f7668d4f", "811c73af63b34a9b78b6f82ec058f041" >>,
    << 285, "fd46f9b77fdc67c83e93334e99674155", TRUE, "3eac1536d9066950", "86ec688a", "dd4e667f2a44b8d290d08a861aee55cb" >>,
    << 286, "f2362f7ba50c4c9d3940dc4e7e37a7da", TRUE, "6cc4a0d67db2911", "a38c3dfc", "039751251cce3dab8d51c196141dc5f6" >>,
    << 287, "f3089c4e992951beb67cba741699c027", FALSE, "4f09c4a832d5f025", "2784a9a4", "63dbd3971ec5ce118a3565666331ec19" >>,
    << 288, "9f7be2b6986d51badb609cef1293d68b", TRUE, "5a3eb4a33e59393d", "fcc4d568", "3294efc019459a5cb3f9016d7957a085" >>,
    << 289, "0c5651eb39583220fc051ae78b77e6e6", TRUE, "59d1bf92668ee06d", "decb224d", "399fce2fa75b16400f2244fcc659edaa" >>,
    << 290, "eb3627427fd64c45fe8a46f3cc45251a", FALSE, "20a947be00ec206f", "a4431239", "1fa7b2b3f2ad0fdacc6af15f6388b000" >>,
    << 291, "1d0fd3fd9a091b35b8af75db78b05158", FALSE, "16744c5ad997a294", "a015ee2c", "f0e576502f3e42374c60b867fbaab4cf" >>,
    << 293, "b53e518be400996c5a4ccbecddbe851e", TRUE, "650b2f136a8c449", "f374499c", "ea9690c035d5e4cdebc7b9e9b12d4f08" >>,
    << 294, "e2ac090b9b34c5938671af3f2c58b28b", TRUE, "602ebc4f41e06814", "8ca7440c", "447fecda5182e9d56b9731130d6d9726" >>,
    << 296, "602fd3279d9c5e6e86dc1b651bf95077", FALSE, "3c75fa52939a15f", "e46b5cce", "1c6b9e4b3da3ea5edb7a987acf7781e1" >>,
    << 297, "4cf94fe9722dbc8226297a49bcfef6ac", TRUE, "7acba84706c57bad", "f96c02b7", "985eb4121f1119d7747adb5f82bf58fb" >>,
    << 298, "1c2d33d10da4642a7623334a2caf8f68", TRUE, "6c85f8d81025add1", "ea241c66", "4c52529034044f9ba8a6d9188654fbc1" >>,
    << 299, "aaa4d15dd40653e16e604f76cce45574", TRUE, "4e39af388cb11c8b", "772ed5b6", "869efe0271b89b3b0dd6f3d94e4aa8e7" >>,
    << 300, "27cc51220fc8c9e13381449a2cc23917", FALSE, "4b5b6f06b0fb6a6d", "60c47829", "77430488c31fc7bae33e74d7846d8351" >>,
    << 301, "849db78d3fadcf7148f3547312d16dbf", TRUE, "78a38e1b431dc797", "7228ccb7", "8eef0a9a877aec1beb0c3ada1c464c5d" >>,
    << 302, "f8a2a977e3b8ebc76407cad552185b5a", FALSE, "7fc03401759ccb2f", "9c7fc414", "f36b7b656310ee8a2f6ce1c6e4dbecd9" >>,
    << 303, "fa995b6f4d967347eff0d1103e26885e", TRUE, "3f3e6a7be82e78e1", "2d61ac45", "f64045fb56eda7878df63aded50a5137" >>,
    << 304, "597cc9400dfdeafcc58c73ba8db6fcf2", FALSE, "6e441897aaf36b8c", "1b7133e3", "472df952c007b9ba3967dbd7183c5db3" >>,
    << 306, "f9904618f0cfad311a0352a75547422b", TRUE, "43c562aab7ebf0ed", "f1c50e91", "ed22847592dd6509d037b001ee50b284" >>,
    << 309, "c88ad4390deba8103e37dc69fc213c8c", TRUE, "4df4b9e0411d90f3", "96f49efa", "2fd153af2bdc239016c0007b145a30bc" >>,
    << 310, "4a8bc9eaa6ec260df006762808bb314a", FALSE, "64be1e6e01e9389d", "7b5b231b", "591ac336a80b737bfa2143afd6e9e383" >>,
    << 312, "f29352028923f0bc95e8539053331a81", FALSE, "535863a472d4a3f", "9b1ece19", "48f849fd98f24e5437e555b401e7b425" >>,
    << 313, "1db2a024cda1e2d6a2aa86b24ca02e30", FALSE, "2bf67eab207320a", "e749eeb7", "14a3e234bbbd16dac515c799048b35a1" >>,
    << 314, "939d9a54702db98cf259229395eb4122", FALSE, "83802b77cbb12", "3be3b085", "d3da1afc688b1229526de0b17f761e60" >>,
    << 315, "d493fafb3b963cdd189fc0ce958ae4d8", FALSE, "74c8517f1177cde5", "a7bc5692", "592235fb901f1c73f744c1e17e1e3d59" >>,
    << 316, "b59e967c6ba7657848d4f48b85f42b73", FALSE, "1ee8b2966eb5fe1", "6f20230f", "43e64f935a191cd984d5e31e19cd7482" >>,
    << 317, "885d864612e73a42312e6384c4588a99", FALSE, "2a4f7241e1aea2f9", "b19c37c1", "92498b5256ba4969bd225c058a01d264" >>,
    << 320, "d0dc55a23dec4636d7774adf51dc96a2", TRUE, "386b5549d261b10e", "19ea8d46", "b0160bf777be8edba4b9ce1a125b3aff" >>,
    << 321, "77aaf091d35b6af76a215e0626580034", TRUE, "6ebe531dc0d31c1f", "206b445", "eeb9571eb23b4e182363a59c402d4967" >>,
    << 322, "b3c22a4b1bb14f83ad7f8a8d1ea0f5da", TRUE, "172a3434061000ac", "fda655ab", "ba138154736e8e24c665588664ed5521" >>,
    << 323, "363f928fbd1e662ed0672f1b0b8ee544", TRUE, "1aef91abe8f98c78", "c0c0dc78", "0ea94766d4fe56dbd84b59dad6d76a27" >>,
    << 324, "c7072aaa81067dcb81fb19cca5fbfd55", TRUE, "2b787906be03afbc", "932cfc5b", "14bf3993575ac9527937937e7ede4107" >>,
    << 325, "4fb53c4d7cd86bad0f121bfbaa4d35a3", TRUE, "7b53d29ec0a0fed1", "72a309de", "130c64a529b90157bb7b878005d29b83" >>,
    << 327, "0277563f20d50615961400a4c0460e47", FALSE, "1a70370591537239", "162caf1c", "251756b8115be01bccb347682f2316d2" >>,
    << 328, "7f397db0ab507aac5b5973b446ec8fe4", FALSE, "2820fa546866a3a7", "c6ae805a", "e8f0df051c8a3fe0ff130663ec2aaa86" >>,
    << 329, "650c2c9e5f546a639f4970b984774ed2", TRUE, "7bd945d4b5f3e10b", "bce0b8f1", "c434b24ce74ca44a111c2de2708dd32a" >>,
    << 330, "855632c3e79da7330f531938f2009f84", TRUE, "34aea51383aeb26b", "f1300d84", "ba9c42a1d249d88dccdf51a027958b0c" >>,
    << 331, "366d6fd24f5bbbe1a68e1e0297252832", TRUE, "3feac44f7cfe0916", "157f5931", "c4a7538edc931805e29fc6e497f337f0" >>,
    << 332, "d275d1c2f632c577848cec46c1b9f2a5", TRUE, "3d2522517c93550", "22eb2987", "091d0682fd10b4b0c2a58f55a5653325" >>,
    << 333, "e389a6d6492885c3a067ad4202973382", TRUE, "6092479dae79a1f2", "50a81870", "68c956e3f39e2bb6fe6e302aede7c302" >>,
    << 335, "c32c15d19438f20394035b83b18f6bbf", FALSE, "40aa7a51eff400a0", "9ae9a75e", "5acc9218536b91dd206c5e013d9e2cc8" >>,
    << 336, "35422ed092dc405012bc3fb544da6d04", TRUE, "3c7bcc3932c87f3", "2b69d39e", "3cde2abbd73cf8088d16cba024d1d452" >>,
    << 337, "91a1e4192a9f6a604e7244a0f9aa04a6", TRUE, "57d2d8af4d0da21a", "279cd0c8", "537e235c7bcc5afd792a4c1157d18f8e" >>,
    << 339, "24dfca0d4658c08c607a57de21589220", TRUE, "3d3ff1eed8074a5a", "5f2a48df", "d80c97fa6c4c67302f3a76aaf81d088e" >>,
    << 340, "54ab76a387cb0dfeae758bbf94a1802d", FALSE, "3df93ec9e0a29295", "5f2c42eb", "d0679cd2d4ba187ac7e9a507f1c0b90b" >>,
    << 342, "7e5cd721bc7cb57acd1e37330912697f", TRUE, "3bd2b5900875deba", "ffcd2718", "bdb888c1988eb0d4472ad5261c6dd2d3" >>,
    << 343, "77f47920fd077afa3855e21a1cd1b686", TRUE, "8a26f44f6eb7f9", "679bb183", "283e80aaaac37041f6e96c07a92e0983" >>,
    << 344, "227d6843359f49c41bdf597e782aef90", FALSE, "28ad229201028671", "5aaa180d", "e10b044fc0981be1e52467894f746bcd" >>,
    << 345, "7160a0ec7a61bf29d346cb739e977171", TRUE, "61a5db8248c942f2", "4a4f271e", "f8c945a5f89fdd8415ec5154fbde67a5" >>,
    << 348, "b0a5df6b2e7286105cb4a6a85097e3f3", TRUE, "1d884c9e123d3de5", "555be935", "30d4b3e2f29a743b098936a880b5bbd0" >>,
    << 349, "ea79bbe5f898bc7c4f4b3f41bf6e2e97", FALSE, "70f5a4636ab0a848", "382830c2", "9549e8b5b877276b55990fdeb3b8e282" >>,
    << 351, "17d44700e92db4744bf8e534588d8130", TRUE, "10e8811b2dd5873", "c402522", "c3e3760c416074a8b12b8e5824e237bc" >>,
    << 352, "ff2bc1776bee30e096494daafad164ae", TRUE, "1330122329fc737a", "d518494c", "dc58f755c508b160267ed150637c7cf0" >>,
    << 353, "75e2f6082960864f9c02a3d63548fe26", FALSE, "295ed234567186ad", "4c700ce0", "8d75aeb34e336d60356e6f544c1ab696" >>,
    << 356, "b79d77a26397d8cd90f19b464637ae25", FALSE, "21aa2bf8521c2927", "bd90deb", "ef9bf9a1bbb4a61b21c76abb70bdf31a" >>,
    << 357, "c614e293dec6e911da8ad0d83986de30", TRUE, "6218d98bdc856e24", "ea7046c4", "9c7555d11308177d3d179a36fab1a2c1" >>,
    << 360, "c9d3003053b12afd5e51288c3cef954e", FALSE, "acd4dc6b00a0922", "ce96ebd4", "d11203e8840361843b4667d01e5f0913" >>,
    << 362, "d7bd6791e4adefff690da75e5785a353", TRUE, "b01597714bce068", "43b875fa", "d452d2b82f180720a957a85b2db8c1e8" >>,
    << 363, "63eb35a729b7979e49ea839502a799a6", FALSE, "7b115981fbc6c637", "aa653511", "daf694472b985c286531173d8a0269dd" >>,
    << 364, "693d5910203846837e76d7e2dc1a6f9e", TRUE, "416c728c90a422bf", "5a95118a", "e169971959b73f4ff035f0bbe78ba228" >>,
    << 365, "ab05c21cf9fd0cc21aeb2e915de71d30", TRUE, "67d9ae01a4535b9", "657aa759", "89f7ff9f89fd6f89128dbb45cc9908f4" >>,
    << 366, "264538bb62f5bc13f919d4d0e7b40d44", FALSE, "79b6a0a985688594", "71e97e26", "a63f39e7be6db5be0a755dfe7003b573" >>,
    << 368, "e168e7b2e5eaa141f169680bfa801cea", TRUE, "50446d1ab10bae17", "ed9d5cd7", "9d8a78c5130afe8eaf75fd9e1bad615c" >>,
    << 369, "c20dbdd472d6d3bd6a391811f1d7473d", TRUE, "29bdbeef338fb49a", "7bf8e3de", "8ec61e8c973c804ca9d794351bd26e41" >>,
    << 370, "beaeb4afa7f4a3764bc8194dd82f3ee9", FALSE, "181d054ee3187382", "bb1af8e0", "d77d461bebdaf7335f0e5fd2d8d66955" >>,
    << 372, "9a398cc800bd2d0d6fe42e3235e6aa86", FALSE, "3b175370fabf4d9f", "b88e2ad3", "abf152746614802c8b60ef6f33f9237f" >>,
    << 373, "708485105b4040429687ffad1e3e043d", TRUE, "394fcd5ca35d21ca", "c35da91a", "e645ee9f4ab094f3f6c3c61ff31f8709" >>,
    << 374, "78583cc3cf18118d569b3e5a35f361f3", FALSE, "1442dfe1bc7f23c7", "f8997595", "d1c44613c41c44ea49279ebf0b545c58" >>,
    << 375, "7fc5d16b2d892df406c649c683973d2c", FALSE, "56a142ca1330c05", "715b5c3c", "09d9f3148b1dab433d60ecf894021c05" >>,
    << 376, "ffaadf3c01999b79c262660e2eabf1cf", FALSE, "2a4470ee3df5c450", "4fc64ab6", "2d222276943bc5f4b8dda8ab7f2b5c32" >>,
    << 378, "ccd8c522c4225cabc4639affab52ee56", TRUE, "32cf204c54ab0ec5", "d008137e", "ee27e4fb515111c96fe21ea1bd276e4a" >>,
    << 379, "54b09785065b6f58f4f9d0d430dca8e7", FALSE, "6fcb179124cee722", "78ba0a09", "58aa6db9dbde7b0a1cc0124c95349abe" >>,
    << 381, "071a45f0add873014e54f07bd292c32e", TRUE, "688164e4a7ce29b2", "162907fe", "caa0e61b9de032f3ca033a6cfe2734b9" >>,
    << 382, "9607137d018748fdb24873e0946f3ac4", TRUE, "2665155249e9cfee", "d716ec49", "474e67ac9ab4669b668e6bea37be74d9" >>,
    << 383, "b81bf97717419efba94aa46d85539246", FALSE, "63033c878aa091b0", "9e6136eb", "297a2136136fae80adf18158a7016703" >>,
    << 384, "10119464814ed1c70b74caad01351e04", TRUE, "763224b2c09ca026", "1cfec0b6", "0da15bef2784bf3705cb227b101f12b9" >>,
    << 385, "0fea525cd38897ca0460df288c564bca", FALSE, "18d0eeb0fbf143e7", "a0894919", "ca8e2c1a43b60ee134fd2c7392eea087" >>,
    << 386, "b74a2063bd7e280e1ab8696349716376", TRUE, "7a7971b56754366d", "7812a913", "471ad036154b73b2126f9259bd4735c7" >>,
    << 388, "7adcaddbef85c3d55c4d4e88695d2a56", FALSE, "29884b549fb6ba8a", "747abbc8", "1a80fd989e0bff0510af622facfed826" >>,
    << 389, "f609f8b1a639dacafee235579d4951bf", TRUE, "63a80c6979f2eaa8", "735246a1", "2d5ac099ba26afb304b8134ff5c1a70a" >>,
    << 390, "f266e70f0e1c1e3f35551a890c6bbd52", FALSE, "9243c2dbdf781a3", "3f5b730f", "a08e65007fca892ed8d88aa8ec071373" >>,
    << 393, "1abfe07c2ace559ea503b0a4f4df440a", TRUE, "786fccd693f4b894", "8488bba2", "ed1d42531f4efa543cc0f91bafe8a934" >>,
    << 394, "0488b3f6f6a79af1e0128839fc755774", FALSE, "de401218d3fc345", "15c3a28d", "aee22bb398a351e80b1a92fd966f1a3f" >>,
    << 396, "82659e0bff430829af7c2418ffdd9504", TRUE, "5aa281f2f5355568", "b32fa609", "afc200826408e38ab43eb0f326c7125a" >>,
    << 397, "85010b41d5b6e039641f268bf724fd92", FALSE, "318dca76f1e01963", "e9f59d17", "32aeae13693c6864d119a5822f9f9256" >>,
    << 398, "53f6666015eddfef1c7529ff13b51d3f", TRUE, "a10d2a08e2eec99", "40ab98d6", "835ac3d37ecab099f302452980282746" >>,
    << 400, "d8ecdcd51c4622619873e8abdfb4eae2", FALSE, "7e8b22430a65ec50", "392c6c41", "7914a98f161b19a5de96e47731fb8ae2" >>,
    << 401, "ae5e270910b35743d6d6d5afbd0e7c13", TRUE, "25684d3c0299dd25", "1c9c9767", "a617a2e4add036c6775ba781e388a420" >>,
    << 402, "0109f8c50d425089d6049054e3d49b49", FALSE, "611e5d38392f8d3d", "59559a02", "6629520358f791ce74de8bba2f566354" >>,
    << 403, "3e7686c3ae5f952cc1332e0a5bee8d6a", TRUE, "7b4b191478f65399", "ed40280c", "466ea11049b8a1a397ed6deff17cfed9" >>,
    << 404, "09b11c9ec0ed02eb7b33dc2d63c652be", FALSE, "4db455f35a0a8c37", "8963a86b", "79fd86a0422d556e02498fabc8c644dd" >>,
    << 406, "e1b87814bf0c3f8a98bfdd0f62c72270", TRUE, "56847ec2b631960a", "3accd383", "024cc88f3c6e132d513fbd2fd92f838a" >>,
    << 407, "cd212c24b20ac63ebd773f375e150793", FALSE, "24dacff3b2f15f77", "86c9e872", "82f9226df1240e0df5180e51a8b6c2e1" >>,
    << 409, "08a6da2c681016eef3f67a636f286b5b", TRUE, "539779ed4e4348ea", "57db6ef6", "289d20af2201f10eadd81e53403ea0ba" >>,
    << 410, "1fcf6d1a8ecb5e435ed98997f4f3cd4d", FALSE, "9f6bae928c47b11", "fda30f26", "73e45f37380e5f0c098c6bb3a3d417d5" >>,
    << 411, "bd952f0dd2daff1fcf2203f39ec18db7", TRUE, "1aea5844348674a3", "4b75d0e9", "fe01847c6478528a64e86c570ee72702" >>,
    << 412, "f6d73efb5756f4938c85d586447a92ad", FALSE, "3057d94e54921d66", "3c1153c2", "4ba62ec34e78a6370765a0bb80234bb0" >>,
    << 415, "8702276c34ed0b80128befcd11bb96ff", TRUE, "79d9c0f8b348e8d9", "9cce8fa1", "1298004770e854791953a6671299c772" >>,
    << 416, "c49112ed0fbf75283b09e6b48725ca86", TRUE, "320f7f6c283238f0", "a97ec78f", "c18bd7c19c8b25d54238260743a0fb31" >>,
    << 417, "40644ba64d62441205aeacce1588a4bd", FALSE, "589451adcc6ea994", "da0e6ee5", "c1da178af7424d34eae1570b2527c0da" >>,
    << 418, "2e90d5bc963fa30c460fc548d05195ac", FALSE, "144b8bf4299d02ce", "e8e07684", "e784f70bbd51ff28061e07741e1c50f3" >>,
    << 419, "8334b225937d189e0fcc7f0fd77ed78b", FALSE, "17043c52daf7ea9d", "7332f657", "dd5700da5a6ce07a28900827cd1dfb03" >>,
    << 420, "1c8cc7f169fa30c7fdeaa34433b3a185", TRUE, "3dd668b5e0e309", "db9db6e6", "1c40a803fab9093b6a65d340deeb23ea" >>,
    << 421, "86464492a303ce2a049a898e3c69c1aa", TRUE, "38fc447cfa4cb776", "926f5f73", "fb8ea62df807beb4690c9ca8da164a55" >>,
    << 422, "1c22a44133130cb3488174e7e9ea1297", FALSE, "4ed7db1cb1321419", "4f5071f5", "60a965fd34a6abb92c03149cd547e762" >>,
    << 423, "fd1e08206abc8b95a20fe8c27dff97f5", TRUE, "4a66b7b76f9cf407", "8df57501", "0aee866e4f32233a34022c7ad64b963c" >>,
    << 425, "b33df7cace5c6d7865181ce60459121c", TRUE, "74ef4c80aacdfe29", "598872f7", "bea3cc18d412cf90fa394610c1345db3" >>,
    << 427, "ce78fb1e3e785bc0e4f291c67c60663a", TRUE, "13cda58b5fc031ed", "13da1dba", "f74ba1467f16ecca945c3c0757f846f8" >>,
    << 428, "953e86fa4fcdf2e1a12a8b86de479758", TRUE, "16897aa7d941a3c0", "19ec8db6", "c93bcb1717894b151954f4b61596055b" >>,
    << 429, "94c1b3d48115972516b7e35626a9b080", FALSE, "7605e94ef16e5bac", "5c9e3722", "41bea3ea3775f4e676a34cad8f7730b5" >>,
    << 432, "b8dae01401415f4d254a39d6cde278d1", FALSE, "d8f65f9f38b536b", "46c0799b", "a26051d60451129f67b5026a26180aa4" >>,
    << 433, "2bc7f84e86785a878cc69ce4911e2e9f", TRUE, "1ac197fcb188dbbc", "2eb3f70d", "3ddf4886ed0a23c5efcd79661d307dbd" >>,
    << 435, "ffd85d14bf96f333e3e546dfe6c698d6", FALSE, "5ae2822965b7ab56", "8065c2c7", "69ee78639ddf2843b9f82bbd5d2e85cb" >>,
    << 437, "4e46a6ffe273bba6884e1926c9869ce0", FALSE, "6548e3010d2a608e", "7c408de2", "90e568453348a0b91a7aab6912bbd250" >>,
    << 438, "dc2286fe4f2d20d3022fbf0fd0d15ada", FALSE, "52ec0b881f6bb481", "ea83f080", "a2f3b63d408a7beb344a25d699898e0e" >>,
    << 440, "2dd7391830f0fbaf05b12ec2a8a468e7", TRUE, "5b2244ce796178a4", "49cce195", "19659afb13217615a40074eb1776a704" >>,
    << 442, "06153a616d0f62ab9f41098e98f67981", FALSE, "2708ae963be4f962", "29e9938f", "fa108a46d5115e8bdddb8115888453f7" >>,
    << 443, "2c26bee4af6c1297b7a8e23373302546", FALSE, "59d4478681b8291c", "4c504f11", "3d0900bfd14877c817b421823fad06c0" >>,
    << 444, "63ad232233456c5cc9f7fa66a8b852a6", FALSE, "11d985eb9262f70c", "df7401f2", "d475497e57b5583461093eca1a79abf9" >>,
    << 449, "1efa39d581711dece0731a8d3ef2c8b1", FALSE, "218c97e30fa4f73c", "3cdf8ec8", "020bb222f7330f757d356bf18f0c618e" >>,
    << 451, "5d0c3ee05fee873ca85f28ccefe65ad8", FALSE, "4774207ec7395595", "7f9fa950", "8fda9b5bd9f3f4397411ec1c4eacd813" >>,
    << 452, "42a6fb9d8535d36a6dad180cf08b931d", FALSE, "4345b0bb946f8a8c", "bd7437a6", "007089e79c4d704dec121bf6b96f0ea5" >>,
    << 453, "16767939560b3fa25aca4fe7aca07ee9", FALSE, "4813f18f741673da", "176a497a", "0205941068a4f26620b98a7fd9b2685e" >>,
    << 454, "31bb4fd41373aa3d42a5abea6bc64e31", TRUE, "6c66e24afad869d2", "e3068b30", "0dd2ee27092f4d6b2354c0579e42cafc" >>,
    << 455, "b506b16da31f69bdf092d89509319547", FALSE, "23f75ed02b73712c", "e3278632", "68951c452c53cb141ee895d4d188fb3e" >>,
    << 456, "c931e1798930f4ca7c96009eded4b549", FALSE, "6bb222815ff07231", "9aad2987", "1792dcaec04b20a3290572a7dba65bf4" >>,
    << 457, "7800f81952cf2126131516d5c5daf85d", FALSE, "1b7c7428f7b16cc8", "43908a16", "ac1820ca8a0ca101558f10f5a4baa8cc" >>,
    << 458, "b5464404074643005c7a534387170b57", TRUE, "7089cc32d3501c89", "ea822380", "a251b6eaabe58337eafddaa266a4b045" >>,
    << 461, "42cf84afe584e1614f2108bd779799bb", FALSE, "40f9f19624909df5", "e3ca4bca", "bfe03642657a5de1f36d69ab329894ff" >>,
    << 463, "7c8f84da3059d8b898e91503cc2cee12", FALSE, "9cc8a48c8ba7e2f", "2a598050", "4f84d3971f17036bcda3de2e8eed619f" >>,
    << 464, "bfc2b7f71ca32c48bd7bc43c474dcc63", FALSE, "665c9b85a6838873", "a4dd2855", "f768aea06d848de098e581b222c313ef" >>,
    << 466, "b12acca36411dea67abf111948b51cc4", TRUE, "6bca0a3a38c44f09", "28ec31e9", "0332d840759e6170511a7dbc8c95a14c" >>,
    << 467, "1fe5a50c25d98a4424fce3dd770d25a2", FALSE, "1f2bc49788ddff0b", "160f3e7c", "c2cf50b14d0701958be040e39fc5609d" >>,
    << 468, "6e49a2520973f8dc4c4ada4f0196ed40", TRUE, "1576e68c5569586b", "25b249d7", "74851ce2786d7bde584080a67595dae3" >>,
    << 469, "5f30feeee85352621a1ce751c044d204", TRUE, "2807b395ea707baf", "c6383e9c", "f48024037fe6d00013ea83f35167b39b" >>,
    << 471, "6ebf9dc4a719e76de4c78ed286aeaaa8", TRUE, "4a6e52ee5c2bc7b9", "dc91d53", "382293e18358dda58d33107b80b6a2b7" >>,
    << 472, "5386ed87832cbf0798ddae4a978a9391", TRUE, "7dbf6c81b2d4208a", "c6476b44", "4bbff085ca1dc9e0caabf0e319dfa95f" >>,
    << 474, "23f3591f5fbd74b5876bc47c25108a10", TRUE, "662a1f7141ec9cfa", "a968615f", "2d2b9f04f67b4273616a187d7d1aebc2" >>,
    << 475, "132d9d5ec324284943ef425258d1d4f5", FALSE, "270564b8659a12a0", "2ab3bb6", "ed696a378325c7bd88d662f6bddad945" >>,
    << 476, "420672aff0911140e841f0c13adedd89", TRUE, "9aa2e28912bc7d7", "a7211c8", "a8abe1300685caa558cf1e930d98c73f" >>,
    << 477, "0a39b62c768015a5540b135871d548ee", TRUE, "2a544a7a2b449cb7", "979d0c15", "1c30f6ac3df18181ab040cda1c263f8f" >>,
    << 479, "ef26f6712a3086b4c23c590855e20ab6", FALSE, "222cb84924d5a871", "e9159f08", "779d832a71cb063295c085f398c5d86a" >>,
    << 480, "1af11d661b46e756aa49df006959c8e0", FALSE, "3f6965a5aeaf2c27", "e5b704d3", "f8ca397a8b41c5db8909599f6e8cddbe" >>,
    << 483, "08f7da19dd54989492dc051ddfa607e6", TRUE, "30c422be9498388f", "c44e8439", "65b1a3f1ef4c8b9056478669450658c8" >>,
    << 484, "9e2f7132bc3a2b5bbc252b0c354cfa57", TRUE, "209aaabd67931d8", "65ab779e", "4806a79ff7bbebdf2e9bbad5c2a6bd90" >>,
    << 485, "e53854e4514062964f8844fd3602568b", FALSE, "3430722d269b424f", "67197961", "c375afd4c6fbcbd85bd63c3cf9616063" >>,
    << 487, "cf811fc7a3c5a5a147d5466408f8a5df", FALSE, "3e89e7dc9dc27e29", "e2ec7aa6", "f4beda7581c2e7df3a0d5ea3651bf2fd" >>,
    << 488, "101065e767b058dce27b44d74c06be08", TRUE, "35075eb6ae3657fe", "4467d1e1", "905756fc7d3754e7b52489a1e34bd021" >>,
    << 490, "08e54f1c01e9af1909f39838862785bf", FALSE, "411890d32f6060ae", "a1a8e15", "1872fde25a0944967714c80a57dd86a4" >>,
    << 491, "3e9a3a287f471303c63d1d9fce5770b7", TRUE, "4f36eddcb505165b", "e169e466", "a9756123606933094239f1139665935f" >>,
    << 492, "33d730c20cbff9050e303dbcd122959d", TRUE, "680b01796fc6514d", "aa9759ff", "53df745e7240a23b120057320aa785c0" >>,
    << 494, "f5d5568e494a1b570598ddfdff7139bf", TRUE, "2df436016e1dd422", "944e731", "081fce32594edd87bb869e1cda2412b1" >>,
    << 495, "d0ed040780d6f30da07c7ae889720693", TRUE, "bd5e29c3ad538f6", "bae10e87", "74e3dc951c30c4bdff75ee9c6ab994fb" >>,
    << 497, "7a3b39911b6386e89c88750f74be0fa8", FALSE, "2cc69a221523be3", "33023bf8", "54be8f987b3f3bd1d044d2ac92f5fda4" >>,
    << 499, "91765ef73d03b892f17f7881edb8f01c", TRUE, "665e47359300578d", "370b54e8", "6698390ad719d39e142d01dab4a151b0" >>,
    << 500, "2b02666fcb676e79621758052c717554", TRUE, "615e630f886cca5d", "7aefd036", "182c32847dc29b043c4810f23aec1e1f" >>,
    << 503, "28ab81aef20238b22ad1d504e2b86acc", FALSE, "343d18a09dbef77a", "a9546de4", "96e77b084967aac7445828ec53a2e559" >>,
    << 505, "201d7c2b24b873766ea5e288b7ed7beb", TRUE, "23f209746233a6e1", "29cc073b", "ffc852d053be387ea5a33137dbcf4ac1" >>,
    << 506, "9b56b9fe7a77f4f85dd8f740ea208f34", FALSE, "14b6c1696a381d8", "b82c57bc", "09e9abece26a40e8368191f6fa60e84a" >>,
    << 508, "011cd3b18f3ef67e965b98e31e3504e7", FALSE, "354392d08082f019", "57f26147", "46a42dd5412f77dfeeb10873de7402f0" >>,
    << 510, "a3a1c6e2e7cf1794869fb0c49ea36f4a", TRUE, "6e0a1342adb3c94d", "20d35dce", "d87fa8386fd310c39513c96229f2cd2f" >>,
    << 511, "d6625245e7cc36b3dbbfdcfe8da78a4f", FALSE, "4dea67f252c18f6a", "aa91a98b", "68b0f74612d50c19fe72adc190181049" >>,
    << 512, "40a689563aa0c3cf3bc5840217fc5fb5", TRUE, "223910fbefe5655d", "c6675da3", "c38a0aa9c0034f92a31d0f1a89e7da3b" >>,
    << 513, "2435fed16d5586e9847a59522f25644c", FALSE, "1a5c1583f3a40bae", "200694a", "6cd6d6b15b665050dc208b864f03f64d" >>,
    << 515, "a6cbcb1b1dc2c9387a2e2e8d3e5571cf", FALSE, "68a256e8f5c16b0b", "61b732ec", "8c56fdf16c82847967be65a910373abe" >>,
    << 516, "d1b3bc77641f253762c04a1a1d9878ee", FALSE, "9ee317ed49d13d", "91e192c7", "031d01d04d25c430957349821ee4ca72" >>,
    << 518, "056e187e2baa5e819d54f34a812fa155", FALSE, "34217585b6dbefa8", "c9aa3076", "e90367520608aeae7d19d8c4a32d580e" >>,
    << 525, "88504c3289b84476de92c3e3c26ac16f", FALSE, "2ade18237b16c806", "a5416ae2", "4801fdc5be8187d3044bd2552490c37e" >>,
    << 526, "1f927184c3d8bf7bfdaf6e258b06f6ec", TRUE, "51b917186e59a484", "74bd3b3b", "90b463ef8427faab40e5deb9ac2260ef" >>,
    << 528, "8de9970c22cf2c4448311ae504cc871a", TRUE, "26d0f769deac9d15", "d4107896", "542448225173e35b70a649b7628dc5ad" >>,
    << 530, "89d9f6bd3e712efd5fd48ef5e3db5e51", FALSE, "5c9b2e38c28e1453", "a2fe221b", "733fbe4338bbe86a901c879c23d09b5d" >>,
    << 532, "1c213b27b54c21c6de1d388cac6603fd", TRUE, "54b423a0aa12e72b", "375f7b22", "586bc26d7744080e11529ab885b59ae2" >>,
    << 534, "1ca00e1949cadde0f84648b6233295a6", FALSE, "1009282f3a3b170", "245ed078", "6364a15e5808ad3b90d6574c4e39ea5b" >>,
    << 535, "b6c79ee4496bf6cb5d208484945aeccc", FALSE, "43069b4bfa301e4d", "eee07fad", "b348e0dca6fb738ba2f142f42daaa255" >>,
    << 536, "18a01fb3aed24682da80d8945c63dadb", TRUE, "4b935ace9aa5dc4f", "9a9a11f6", "f0e8c9e62a927ba0635c4618bd2a4f2f" >>,
    << 537, "fcf60728b03d68e52ccd3e20d3e99836", FALSE, "4a7fc903e17ddbb6", "44e3eae1", "a4ed63abd01462d9ef926d828d6e34c4" >>,
    << 542, "20ebbb4a7f7f424e34a89efbd4a900e1", FALSE, "1bc7f2b5b9a0c3ef", "5b3b49c3", "e4d94cd0cbb41067d2033adb1e5895f1" >>,
    << 545, "23a43b67e5b757a9e3d7e183eeef0c19", TRUE, "1f808864a3654a6c", "4539e878", "e4e4fb14b28bc729487dd86b0988d501" >>,
    << 546, "0ee997d1efd0900697490b47a810b8c5", FALSE, "2d1a9e500702dba1", "40a570b9", "55a9bb6b3b96c850384a14fb517a45cd" >>,
    << 547, "b8441beca30e90088aa9af86f69af177", FALSE, "4577d963f12e5f00", "d3e6597", "44024e4c25abf5b58a43d3fa0549a507" >>,
    << 550, "538d43f459ff02b0910753fe5544b296", FALSE, "1584d7f95cae791f", "b3145f8a", "9c3489a849200226e3b5de9fa86382d4" >>,
    << 551, "5454c7520249c6ede53e70ca550c96e6", FALSE, "53efbf529e422b31", "6271595e", "448f6a82087a40633a3e4058874823cb" >>,
    << 552, "105f2fb8f68a311908475a0387621352", TRUE, "38731a1fdcd2aa59", "577a14b7", "bdae2408d141a90f2e512a39e5b96ea7" >>,
    << 553, "27a76eb4e5fe2cf177735f932862def2", FALSE, "606b194e3bac88dd", "e991c441", "e9ac0c8b82915158ade993ae74a511ed" >>,
    << 555, "f133596cee02388309f9106727148f44", TRUE, "4fd82e8552277f9b", "5dadd8e8", "4e0e115cb21a09be6ec71f2d01486207" >>,
    << 556, "7b67bd3f3bbee36224964a9a82a5b44c", FALSE, "37d3b706525c9ebf", "31bb736", "3f69085cff531aae10ab38d8ba580ca1" >>,
    << 557, "b069eebced07bae147f25a6ce09c24ba", TRUE, "8de9320b6b92a22", "d357e94f", "a8de5af49ca40ab411d16a4949c11b18" >>,
    << 558, "130595f5c7f17a3be6a64ddab1209487", TRUE, "5b0e405c1de9633c", "5a186c4a", "451acdb757ba63e2ee8543eb24375292" >>,
    << 560, "9ede4a3bf684690d6eccc72fa4f1da28", TRUE, "50229e22f62c3823", "78b00116", "08d692dca278f59f46da78af51c5fbc8" >>,
    << 561, "fe7aea39bf0759b449e1e42e5a18c5f0", TRUE, "30b42521cf15686", "3082fe83", "4387983d0225a8b90f84bcc807a76f8f" >>,
    << 562, "5362043c1e0cd0ac302f319f3c3cfa09", FALSE, "584a6c0395e6896c", "b10b2af5", "d8674afbfb4b4c53e44606b9353fb5c4" >>,
    << 563, "3db597ffb9e31109e6e3ea6dffb5c81b", TRUE, "4a167ea6b7417e0a", "ace9bb05", "0c5c89a029e11d80e162cc1301e877fc" >>,
    << 565, "831cf2903445a16c5cd134832e6dc5f6", FALSE, "58056ab9e8a8320d", "cff3e378", "0da8376515a4e908980e964b8be562a2" >>,
    << 566, "6b5aafd072dae82229161fb0f57a7dde", FALSE, "4fea3a8556645cef", "c9d58ea0", "a4773c85b814be2465adcd99bc4d6ee5" >>,
    << 567, "21ca1b2bb4c1a3d90237578f1320ea25", TRUE, "4bb43fcfb58fa202", "8a0bf5f4", "c82b7b355874f8f258483f328acb2e7f" >>,
    << 569, "b3b80f5a7fbaab6f30627161debb7074", TRUE, "4a38117ca539ec81", "94b9ee40", "b74f93f555a25f4a65ed839ecb098840" >>,
    << 570, "9ae38c9bd19568eac4dcc25da1777f96", TRUE, "3955429b909c8050", "ebde4836", "672689a75deb79e674509249006e4993" >>,
    << 571, "e1f028d157c792cfa6767a5b80255442", TRUE, "26c7fdac2bbdd077", "17323a3c", "ef717c89c65df47cfab1c63d318d9f9c" >>,
    << 574, "7ec4b55857369912e7adeaec361fa022", FALSE, "346933708303d6f1", "b69ba1fb", "802a883424b839ac9bba351aeca1d794" >>,
    << 575, "f518019a802cc3d99ca4e9d6f330a1aa", TRUE, "56d34d921be9e6bd", "35501bed", "1d7609d4b128c13673874c5c51b6c203" >>,
    << 577, "9ed426920b4445e99a747a5a79221fdd", FALSE, "15b417bcf2743c6d", "1aa337ee", "8c36bf73b8e76be4c34f68e0241e4cc6" >>,
    << 579, "42ef75c6e05ad1a452e85975df0fa340", TRUE, "64ce90e56aa8fc9c", "90c3a93a", "faba4311ee9111913fe3f6991c3edfd0" >>,
    << 580, "c834d84dac569248d3696f3795b1e452", FALSE, "383c5e5af4b926ed", "2f268ad4", "b0747bc59decd3372155640b2b8a1487" >>,
    << 582, "b45ed5866158ff2cb1bc7c81edd2f3ef", TRUE, "5062ec2b100afda0", "be7aee1a", "934120b5af9e690a92d27eb41f9c4818" >>,
    << 583, "0f4fbc32546588a5cf33e88c26081acd", FALSE, "49f5e131aa2796d0", "1b1d66ce", "c410b31aa16156b1f4492e16db9adee7" >>,
    << 584, "27860495b07b374949a3f3e0d4ee3bae", TRUE, "3af53a1d48d618b5", "3fba9645", "4a84e3cc760b6df6d41b5050ed5a3f72" >>,
    << 585, "cde6c94c161d815688c1b69201200e0c", FALSE, "2e3ab5504f7d7d7", "5564977c", "19f27f37738fc3ac88d4ac3e83d6a790" >>,
    << 586, "3ebf615e8fce9591cce9a2fa892bb8a4", TRUE, "733b29f740b7b29d", "11692819", "ad8f121c4d4e65490406a7019564d623" >>,
    << 587, "a294762488e6888307ddf12294a3e958", TRUE, "290fd759a3e42114", "4a88b868", "fff978867b3b2a2e8cea9bf448454298" >>,
    << 588, "b9153bab337955e072e9ba7bbb5875a2", FALSE, "3841953483314f2f", "b2d74e50", "e8c46765db1e370fd852498b41125f40" >>,
    << 589, "e6c5d1c576da959867528d0136412a75", FALSE, "2d052d83f82bb458", "d29e092e", "af0a6659fd1208f4db559264e8bf4f31" >>,
    << 590, "10f920b8d6f8a9385b6612877868d82f", FALSE, "398c82f8da5b460", "5746448a", "312faa845e3cae1a7092a0b88050c744" >>,
    << 593, "6091638c0d063da61586c56ada8a3b7c", TRUE, "300d8c57ca57cd3", "4a8c4904", "caaf6610165d311275a48c2874456d79" >>,
    << 594, "1bfecb13e70ab0a5330073d291e76a95", TRUE, "404c443df8c19b86", "804a2673", "22026d1b9df94794050c6644f70eae88" >>,
    << 595, "f7c424507898bb5a46afc98aa202d8c7", TRUE, "4f4cc04d367b0f69", "7d8f5f5", "abf16d2ee34e673088bbbf61af3bcd94" >>,
    << 597, "451caeddbb7c86ff5758dd7845f34a6d", FALSE, "4ffed917085f2000", "3b659a4e", "d3b3afe7b84a106c20ca5c4a1e6ab3ca" >>,
    << 598, "8a3d340c6e46d126009e6f711d0f9244", TRUE, "3360e82a45c23c7d", "2c53d224", "7d4115d2c28788969241bf49d775f8c9" >>,
    << 599, "2714d2cdc27b7c29db08cd1fd130e91a", TRUE, "582c6ec257100f2b", "2ef2a5bf", "1c4824901f44c53e44efb8c0234a560c" >>,
    << 600, "3ff026b249a7aca762e4788a0cd3aed0", TRUE, "7885579950a223bf", "315c5645", "f9472555e1a2567a2144e571c9bb0692" >>,
    << 602, "3e13486ed17a4a4e20a778445065c52f", TRUE, "29460913a73d7a86", "d9465c0f", "baf1ef1b59012e44bde73415327231dc" >>,
    << 604, "11b5ba0189d4e356dd44fd2e6a96a903", TRUE, "16daeaacb042af2b", "6935fc2a", "15884e8387ba83bf860472cc516c33ab" >>,
    << 605, "a1dd5214f3ebefb40ca677ddfd280a15", TRUE, "1d803f3e12ee0f1a", "39738ece", "eec7e9ad1d708132b0233577fe606e56" >>,
    << 606, "b60ef367681f9726a5a53498868f471d", TRUE, "1e15f6540f947b4c", "89349e8e", "74e566045b262b70f7fe879fd841da68" >>,
    << 610, "af40df91122a06630d187eacbd621fac", FALSE, "3dc3f1954155ca74", "e9f6b55a", "7a0d4b056035bfded284bf94e2e3a1f9" >>,
    << 612, "9ce68c0ff41fb2e8f13f577b32699c35", TRUE, "62bd957eef2537d6", "e814a1ab", "ffae2d9a289652554562430129d0fd4f" >>,
    << 616, "f2a5c826f7c35930d9c3ad303a4816b7", TRUE, "5eadb426fb5eb9fe", "cac6ce6b", "c4c3863c7d8a6155713334c501ba7d9b" >>,
    << 617, "c7ceb31badafd9b654307c5f1823654a", FALSE, "5f8442fad11c0d26", "2c1cefb", "b56b6305b2cb175f54a01e95d761371c" >>,
    << 618, "15ab4a862e7828c4b581f1efac47acd0", TRUE, "55db4e5e408a8b1f", "853429c7", "00aef7b6a1d6726939b7dc5b2b30495c" >>,
    << 619, "ee1ee4fb19a43b2bdd29c29e3a7e72e4", FALSE, "447a9b9154353ed6", "dd858a83", "4bfdb4da30ad830ee5836ceb7d9ea333" >>,
    << 620, "5100091a04b4da8a715818d93e43be97", TRUE, "5c4f949d1bf46040", "822aa9b4", "902a369842c0985a6699e9814718af61" >>,
    << 621, "23a70726a016c03e14cbf07fd38df745", FALSE, "1d25930eae6383ab", "956b94c7", "31465ef4203cbc3e11d6720fa4c545db" >>,
    << 622, "6b6d149e64762fb680603cca48c769fb", FALSE, "704281da3c70e40", "4840386d", "30880fcfd00affe8252c193874ab8d5f" >>,
    << 623, "eb941c41b20dd18de937c2f8b96989f9", FALSE, "65043fa9005d3aa3", "986be41a", "fcbb09479bd0f55c6cee5fa0638fd68f" >>,
    << 626, "e14e32a38801c761797fbdfb543536f3", TRUE, "31e937fc5cd1e8b1", "22752f35", "5e077790db46e7dd154a2322d6ec3481" >>,
    << 628, "737ca6945801b9290db9a0c19ab2d11c", TRUE, "54da1aa30bfcaccf", "d7d8b5b0", "ab6afdd9d70c6cae9d3f32a25903a079" >>,
    << 631, "3f8e221a5f2da3a91f817950dfa8b260", TRUE, "42061bbc17dbc8b6", "dca21d35", "6b6131089d54626b91eecd651acae451" >>,
    << 632, "351b16895e01f8da2d1b258c12a2cf4c", TRUE, "759d7d93ac9daef0", "d989fe5d", "a1aaaaa6fabb671271ebf130d009d8d0" >>,
    << 633, "7e7f33fb6e8e49ec34c263ed3c29b093", TRUE, "325d61fa381bc1c8", "d34aec96", "4061ee939e686d7eb0cc6eb6f767d70b" >>,
    << 634, "4a3de6df6f8cd572fc19ddb9a325df7c", FALSE, "2521ad5022e72578", "ddf21d3d", "bc24cd4618456657ef77694793a19399" >>,
    << 636, "19ab54c328e5af7801843fe58097d8c3", FALSE, "1144db0fb7eacb18", "c841a2e6", "8f9d20a967f9a04bac7a1a47a09233df" >>,
    << 637, "a6bbf16477dd12e1fe992a7cc675ff03", TRUE, "5e4200609de368a7", "55ee4283", "881f5885077e5509342670dcc1610362" >>,
    << 638, "14a2e88ec4a18186a161cf5fbf9f9ae8", TRUE, "7241133ffca09368", "8362575a", "2372acf52e7a7ca776c15ded4ed22927" >>,
    << 641, "0a0f19df2a3c083b7596df9b7f04807e", FALSE, "67c0aad8e49d16a1", "283911d6", "a9be976dbdd4bad5dae7dc32e7f386d1" >>,
    << 643, "3dc3734743c0dc6f5d596ea8a8a55e15", FALSE, "4c226cd2465fffa3", "5f7515bf", "cc1f8c74b03a6245db0c2ce4dbfe31ca" >>,
    << 646, "2987c4f0cdf8c7623b49629912b17918", FALSE, "1127c32544b8f895", "28224cdc", "427c2529d9568c22bb62810fbaca3507" >>,
    << 648, "67a01029024bdb206eefc2817497ebc3", FALSE, "2f6ff979fb518822", "29e1368b", "a1c2491ccee91170fb8febb5d61e7aee" >>,
    << 652, "f1259d0c42f2950fb28314a6c0255a2a", TRUE, "711f2edee73001f5", "aacad1cc", "cda7041771835e0d0b1fb4072bfdae7c" >>,
    << 655, "7f827535dd738d37e639b05481194d49", FALSE, "79baac60186be6b4", "d9b33b3d", "3e139dfe5c30c0906d3f00882f88f500" >>,
    << 656, "76738a52155fc479cfb8fb11baa6b35d", FALSE, "4b3dd953c7e43418", "d339b926", "78a1cd9e79e7e2da249c4bbc45adfd45" >>,
    << 657, "43e7af3861fbfd9fddb6ade5137b049a", FALSE, "424042860a12b4cc", "bae21f39", "1521b477e2b5a3a14f6d45da0c15277f" >>,
    << 658, "54de55824a4c913574ddaab07ba86e10", FALSE, "576d8399b0003c6e", "30059bdf", "d524a63785d6f7784340ed0118a1fb9b" >>,
    << 659, "fdf4117951f53c7477096885af762ed0", FALSE, "4b6b42c084bb7a6e", "d41d2bec", "cb55c49721a8db1804803e575fd90467" >>,
    << 660, "b5eedc5d1dab24b0d3be0c6c87c4de3c", TRUE, "1534c011f1d51dc7", "df65741b", "4f05bf21fb6a6e10f7b967c9adea337b" >>,
    << 662, "bb968b64c06b603cf6a0fd2212f91cff", TRUE, "606341fbe72bffe1", "f0179fd", "d2fa5b49a59c1aea46f540bf6be73859" >>,
    << 664, "2db09e1998f54f086dd6c4b72becb647", TRUE, "71a227e6025dd7a9", "40c2bb02", "c4ceb4829e32629a44701994ed5ccdd9" >>,
    << 665, "353893b1cfd1784f32ce6348c42930c0", FALSE, "77703276eef00b53", "ff235fec", "98faf951ecfe2fa92207681b8041692b" >>,
    << 667, "dc989483a8bcdaaaa4d44fdb8a703401", TRUE, "14571008879da276", "4dc955b3", "48cc52678fe4a053133dafe4e9babd4d" >>,
    << 669, "5b4f862db97382722797abb7345607dd", TRUE, "763c9e290df0b35a", "354399e", "80fb7b6b0a11c725973d9eefae4daa6b" >>,
    << 672, "5802503b889c1946600b52a23e35d60a", FALSE, "72266deeded06f85", "362b2879", "686f7e258cb7637ef43feff077df907b" >>,
    << 675, "34d9f91cabc3e37f43ff4a85e627fedd", TRUE, "70cef3d5d35a40ce", "699d79be", "682c55ed80764a1b4893283b5f74486a" >>,
    << 676, "25d39641bc7a8bf14545c3a966988162", FALSE, "4d4a17b3247a7fd9", "fb19c006", "3c8a2321c6ea2b102e2a122164d00ad2" >>,
    << 677, "a9476d82adaee2847c028b71c44fded6", TRUE, "2a632cca7c0990d6", "a3f09f0b", "ec7211489104e9de0d6e4f54d82f9d25" >>,
    << 678, "c5b4b98cb03fcc1ffdc04220bc9e9fc2", FALSE, "69c50e610383161b", "82eb7ea9", "3fd4d9f9efeda55adb909c9fa65df1f8" >>,
    << 679, "147348783a004669f975355f2f80b4ef", TRUE, "249d963a385df175", "714c5342", "121d0500c802b69d0d6bfe398aa5a44d" >>,
    << 680, "94e4357fdb69e62ca10b23172584dc59", FALSE, "3db5b0b67e35375b", "2d46d1ff", "913de37fc63d43eb6a7977bd05de5766" >>,
    << 681, "ec7d97a2f8da9f68408d5a5e57ec1a04", FALSE, "2847fcb32278be29", "eccfeaef", "2ca6dcc8154ef6151b40cdc8a7f45d5d" >>,
    << 682, "6ba340f1ceacc2319ed5a9a5fe5dd011", FALSE, "51d76b316f02aa1d", "dda5727", "69257bc96b221f68841923ddc6b7c54e" >>,
    << 683, "55322e0843a98adbb6ced0fd09b66812", TRUE, "5948cdb67846c0d", "969faf59", "9413c3d7c3ea4fd0ef4d4c92cbe132d5" >>,
    << 684, "c3a42395375d04f2e61eadbc937dc32f", FALSE, "2541f92f22fc0f48", "f24611c8", "e045bfa25afedb77c9fbe1aac109d324" >>,
    << 686, "00e773a0696e17416dbd8321a3ca58c5", FALSE, "e693c1c0667e83e", "e2a1824f", "ed5bd024c85172edfcd1e2b5f3eb9a9d" >>,
    << 687, "1932567536dbb60b46402262a5e437db", TRUE, "4d3de08a7c586c7a", "1fafc680", "2c9643edf9be68a67868089733f887bc" >>,
    << 692, "16d3680dd9c0a63b90a42584c260d451", FALSE, "c4c67d95c17174a", "ded7069f", "2ddd783ebee7fb6310e2bbe50dea7a87" >>,
    << 693, "62bcc375c142460fce061a6b959e7bfe", FALSE, "4be4ef1a09ca20a8", "d34b2036", "2876aba60480b4617d28a98c3e414373" >>,
    << 695, "a9093cbf2c15dd81b5fa7be7d35c52bc", FALSE, "4b2683b391eb1331", "749ba23e", "5ebbf76d4e3c462eb7f0172686121db4" >>,
    << 697, "6012dcc9923b72468aa82ad738afd15b", TRUE, "5748505834155ba6", "417382dd", "d5518eb33003e904c2a8e9fb956ef698" >>,
    << 699, "fcf6adbb371bff86ea7a9dd3bae2a9d6", FALSE, "6e059bcaf380c6f3", "d360f105", "4901f7e4d0b46cfc4793804437daec9a" >>,
    << 700, "08b9176b35620e95750fd135d036c296", TRUE, "39b216179a173bfe", "c9e3d6e0", "4df386d368d886634d009c7a7a87a1a6" >>,
    << 701, "153f0f5ca58382a0cabbe5130cdd9bdf", FALSE, "67cc150f21f5fda", "7e7c609d", "2f7122d92f9aa2fafe914cc3afe80d43" >>,
    << 702, "5e71c27755630dfbe3905eded04920f3", FALSE, "73799696222ea7d9", "7bc4b437", "5c7f6be74156352eb4b6a07d5cf86e97" >>,
    << 703, "f466687404a415d98a17c2bbf4011ebf", TRUE, "7be9797b9ee599d4", "9e048997", "a0952073598e27f16c9f13f9b4e7c024" >>,
    << 707, "2f5d4d75dd15e0c2ddd07cf99093c3b4", FALSE, "64dd85e8dc98d05", "3bf69600", "bdaba461c9c3a543257eb3cb12cb1cd7" >>,
    << 710, "d7c9ec920a694b52068697af222b57cf", FALSE, "218f714f58ff907f", "f792838c", "0a6090bbc9a9ca2254fdca39fd7b6a85" >>,
    << 711, "29c6df31fcaac0a812f15020551746a6", FALSE, "1245bcfd6ca4701d", "499e594b", "829a38bd0441d7766d458060f0e58444" >>,
    << 712, "f70e82bca3a98e6d45a2663bf043606e", FALSE, "46e07c355a298b68", "a518ce2e", "83af130a41ea77f080b5404208087aba" >>,
    << 713, "1a8818f7820ba01f5416fdd03ac8d1e0", TRUE, "4990c0ba341b6b5f", "62f9795f", "c3eb3230b9b18f6a938cb4746119c0ae" >>,
    << 715, "e4f8bf7d24a5119d784a7b265d3362f8", FALSE, "10b96e264921d2d3", "38addd44", "5ad35a6e60694994bd6b2455fce56112" >>,
    << 716, "90c849766270001c09b378eaff0a396a", FALSE, "4dffc8cf002b88e0", "dabb8078", "9fcd0fa69598057f85b79a58cd1d2671" >>,
    << 718, "43181099e56772848b68db1a59716fe2", FALSE, "59da4497d001c379", "4f9a5b18", "3cf950a074085dce11ae25d189229916" >>,
    << 721, "2b33f8d7225d73f8d6a8bae0b3b6572f", TRUE, "191f4f8a4ac91a09", "f2a9fe65", "631713b8bee300a618b3a5c5ae019867" >>,
    << 722, "dfdf1d3e20d6f24c411df18adff55d25", TRUE, "3d75747ced970ba7", "d52f628f", "0756e0e9870f0823fbfc3e0766beb935" >>,
    << 723, "ea2207ce29109620d211b610b109d058", TRUE, "6e4649ea17faaf77", "665ece49", "6d77e03f894a3239a68b249c280ea35f" >>,
    << 724, "47ef6f8116b664420bf114b4d3c836eb", FALSE, "4df8211a5b2d1014", "ace3d455", "595fdd47ffda507ed395c745742e47cc" >>,
    << 725, "df974933714e62ec0f70eb112bd63ae3", FALSE, "2425729eaa747a6", "6fc3e0c0", "6944c2380ac2c736753962f1c6528647" >>,
    << 728, "6fdb90b93dde6f591780ecc0ae1d703f", TRUE, "67e7178221e56926", "22afa5cc", "2351dad1e44797ea1ef0ccff2a75dd05" >>,
    << 730, "b34a1f973ef0f4ffc743b2c01b95e991", TRUE, "10eca78c6e4b09c2", "9d9bb21f", "4542776e47f146089bb5d9220222ce41" >>,
    << 731, "39befc899a3bd926ca96470615a5b0a2", FALSE, "2430b2ca8b5f916d", "e21022a0", "301f31af3c703146b399b980081aab48" >>,
    << 735, "8f6594f9d85e576f73a4a73fed74fb51", FALSE, "5551576dc2772166", "598743c", "a564238b8f8542ffcedf6efd80db9b92" >>,
    << 736, "23d1ec6e4a004fc13a46106ce25cdcb5", TRUE, "11c5fb71bdb6611a", "cb2df479", "773a997f776fe815092e34f1df7370cb" >>,
    << 737, "17823780efcec8f7e20333ddbac532ef", FALSE, "20bd3200119d0e2f", "df5cc683", "3ec80e3398d1010365a73d6f0fe57f60" >>,
    << 738, "015c3c453901db9211aeb5733e8ab715", TRUE, "3b3836d30a6f27e", "f3325627", "c4aaf7386509df429fd98409b59a22cb" >>,
    << 739, "336a90487b68e3d058007036bd27cf07", TRUE, "6c2aee3fc6051c6b", "febad4ab", "71047e538e72da10887899812f6edde1" >>,
    << 742, "1b845da3f0de1532003133f92da18bbf", TRUE, "78ca65b1e394c9d9", "21d89b6e", "79e1e042f49062f9eaa9f5b4665cf66c" >>,
    << 745, "22b90eca387fbe16e09b7d625ac884c4", TRUE, "312a597ce0e12c74", "6da91435", "f0ea4813c52a133fe0161df6afd216f4" >>,
    << 747, "31b4d9264df5b0bbeff2c27c3a39c4c7", FALSE, "58555f2d4b5f6276", "def740a4", "d4b0675708091d2a98ecf479b763a649" >>,
    << 749, "609f1aa8efcb384dddfc3e747b48022c", FALSE, "76d4cc692ff3b43d", "8323be1c", "3dd3cf8fb387205339ac0ee26c66a8f2" >>,
    << 751, "cd59532539a8e91a898a0f53bb6197c8", TRUE, "3c9c93fbcdfb305c", "4ea9575c", "3fbeec7268b5779d66602526f0345cc6" >>,
    << 752, "4c27095f3e2f8c67fed226357f4e2be6", FALSE, "5f904bd7b9803c06", "8561a43c", "5ffc283fa87834a236d39f8e09460150" >>,
    << 757, "1dd896dd83b6781270ed5c15d29f480f", FALSE, "215843a82cfb70b3", "b149d73c", "526fb36fdf97f96485a136729cda39cd" >>,
    << 761, "b6878ef328da8694c570972ae74200dd", TRUE, "54b292202ecac5c6", "39e8bafa", "8f3648e1a1ca9a51ec89645cbaf378d8" >>,
    << 762, "c1266558ada88ee32d90e7a5495de417", FALSE, "780b444aa42e467a", "32d18e22", "54bb3eb943de43876a74b1dd9fad0a39" >>,
    << 763, "473f6cc10d3ff63155e22e12f5b49f2e", TRUE, "3084bbcc7dad9f48", "9a7e9207", "944b271c96f1918df3907f7400d5dcb6" >>,
    << 764, "2d81e815c2765a527601b09c7924b705", TRUE, "1fa2cbb500d60592", "e06effc0", "5974355244566aa41d9edd1aad455ffb" >>,
    << 765, "799417050871351d22df4d20e17297c7", TRUE, "70ec9e60d29d1cb3", "93d2b8f9", "b40565d854d18781ce9a4a21f504965f" >>,
    << 766, "4f86c0759587a4100b29b6aaf845f670", TRUE, "35e55fdb3c3d22ec", "769600c7", "2bc5fa0dc16bdec83936171f0f792f37" >>,
    << 772, "4ec451260b923e686859a53c00f5092b", TRUE, "77fb139521dfc7ff", "1488d3f4", "03ab4d95ccfa581ecca203eced8541e0" >>,
    << 773, "dd3b6b95eb415ca3ab556c36b0bd2bc5", FALSE, "320199ff4b594734", "2e761f15", "6385c3cea5a5390bff1b5f50779c3a9e" >>,
    << 774, "14cee647758a73f58d404f31e7abed7d", FALSE, "5b7d0973d012ba93", "384d5284", "f64ee7931678a88e0293c5a4a31dbb2e" >>,
    << 775, "fe328b1bd0a52235396d1ee53da9606e", FALSE, "92a3aa94bddf562", "bdfd7703", "4372966cab376ce691f141648b7fadc8" >>,
    << 780, "b200a2ce4e7223ce8b6f73251d171459", TRUE, "30c5a420a4744cc8", "e923a1b7", "f2553779d0a2b59ffb49d8b9c40a7387" >>,
    << 783, "2220501015282aa8c36f54b74752de84", FALSE, "26b90ec59d70800f", "6cd0cf56", "58126f6e62836b8aece615a3c5c484b1" >>,
    << 784, "2c25a5fc28d47bfbeb56cd36c26762dd", TRUE, "6253b682af0c23d1", "7f115248", "e4c8e8e2f01b223a69045e562ca8a25a" >>,
    << 786, "1bdfe34c1a2c84f831337043de1fa581", FALSE, "ea351a8bec8835c", "3f783ed5", "a40dd71e331b936c35f4e6d86677d839" >>,
    << 789, "c017413b760e98d4fd4ff446794b3f32", TRUE, "2201aec854e8ddc7", "881af46d", "709ccef491f24c93681b53d751e1f8fc" >>,
    << 790, "ed60b20fc03113ee66c74a931d071207", FALSE, "21e202a212601fe2", "89373f64", "c29d1d100848bb90f8da649d713aaabe" >>,
    << 792, "439d1e64b8b89120a3aebd16cad0e301", TRUE, "371378fbd051e3c8", "a9421443", "4c97f23219e5e538706d00a01f5e6885" >>,
    << 793, "43f778f18ec413097a33548196c7faaf", FALSE, "57a2749525393a75", "aa4ae24a", "b1f16ade77aef1201e8f53f0156d4217" >>,
    << 795, "f6d8dfd1777dc3a09b78e88a60836477", TRUE, "78b7e709feab90c4", "c8a2494e", "589255bec7975dcf9ded462d67b53b80" >>,
    << 796, "0c27576596d7a3d623f2f7351a6838d3", FALSE, "399f20b45aadbe0d", "706f3ef0", "88a7b8b9cda49c5b5c828b047aa84959" >>,
    << 798, "249acafefbbddae7b76ab217b314dc14", FALSE, "1c1d49fae8474de4", "80768fdd", "0cf89bdb169cf15c3bfa74d2e49874e1" >>,
    << 799, "fca94a93ca8f61af5bea152dfc4e824f", TRUE, "7849d44b1265cb67", "d29aad21", "3347e46a0a8bca80e72c8baeaed37382" >>,
    << 800, "81875cdd34fac1c4d8216229e1685f6c", TRUE, "327837c847dc4f02", "13c46942", "13c6ae101ab8656e0b8cc4f1a0db1543" >>,
    << 801, "35141c86edf62808f50e8ad6db8b07c3", TRUE, "1b85fe93a0affa08", "f0230732", "ffdb63f93bcafec54337df25cee7f5b0" >>,
    << 802, "8a21360dd6f17282d2a0dbf35a06bb5b", FALSE, "4d0c6b615157f3ee", "dfd66686", "df5872d55afbdaee8e596007897bef60" >>,
    << 803, "c2e4fc382a59f7c56d2964e88a925f4d", TRUE, "241db65652c40eab", "fd41568b", "edee465a9a311aceb3d4414a61070631" >>,
    << 805, "025e662f1a6b1c6c8c62fa33407ee0f1", TRUE, "247ed418806e86ab", "78a9b59a", "7b3e2baa64a86500054aab5dbc998be8" >>,
    << 806, "05b057cf18dab31009ca5ddaff932933", TRUE, "38c8dbcf1a202c9f", "147d8713", "6e96db8f1edd92e77a136c500a107ff1" >>,
    << 807, "24fba97edd76bb46f3a76979704a66cc", FALSE, "4f7fb9994a58e73f", "450a1a79", "f942c175ddfda5a6e1554ea750d815b0" >>,
    << 809, "0d8eff83a4990af1eddf57aefd8bc595", FALSE, "474a99419605a7c7", "6c3c003b", "d6f394f1c8a4790e6307f9234d09f820" >>,
    << 810, "533101e90209838b50fd559f2c40fb75", TRUE, "4a330d43f351b269", "94210aef", "3a7837f919a43a271613227b2bc1d604" >>,
    << 812, "0b8130a67216568dd8942226d8e08e66", FALSE, "58ad88aa9fc8b8a6", "6a2b840a", "fb53df40c3b1b82baad2125c290b1d9c" >>,
    << 814, "bb706782287d76af2847ba5e24e89180", FALSE, "564c9b1ba68d57f7", "bfb0315c", "16c5c617a0698d6fb5e1bbcff6f0906a" >>,
    << 815, "f06bc6af280f0a9702c76ad2fce62609", FALSE, "7b6e9ba4444c14ac", "37066660", "1f15aa012981f04b299662eee3c3def4" >>,
    << 816, "1c42c725abbcf0fbb792985bf7ce7173", TRUE, "553d1ecd689a7ce5", "1daa6cd", "4a5f287c7c727083fb71548f2ca30ace" >>,
    << 817, "36aec0c4878b724b685b839f29917868", TRUE, "25e8fc6ac786595c", "3f02aea5", "f053264393e55b91e39e5f8d820d3df4" >>,
    << 818, "ea2115d50a33dff9aa5f9b33d4a014f3", TRUE, "20fd793ad27251f1", "d97bfcb1", "38b6303010612362da9fee18aa3c297d" >>,
    << 819, "044fd4e9493f90eab961a55b278b7c1c", TRUE, "22b79237f4baafac", "29248cd2", "088d38646994e44e62b4f983dcd9aa0b" >>,
    << 820, "f4bb4b8edd611afaad08607f6a98aa59", TRUE, "2a30bbdb65e1fdf1", "c4970448", "571345f876471ac465035fbc092fe3c7" >>,
    << 825, "49942447cb87cc9f0838c910e77e21c5", TRUE, "ef15ddd8a6a93c8", "8c3c8be7", "bcdb28fb5115cd77be9de31c18504fcb" >>,
    << 826, "0b6b69dfe1391bee79c2580ae0323635", FALSE, "45f71a9ec1014327", "abc0170a", "e0f2ccebc83b39d17a09b503012504c0" >>,
    << 827, "f21b07e62a912a8836a4d76ebda9e54b", FALSE, "2095682c2a81f47b", "b8627eca", "d3796468c6a077d21239113ea4dcd94d" >>,
    << 828, "8f90a2423de58753aa03ce82223a7950", FALSE, "72a345c54617727d", "186fb89", "e512ae6a3d15dde61d7a5a3835985341" >>,
    << 833, "63c3e55a459555658a42f77d7a231eb6", TRUE, "6ee0eba6f9f65463", "52a36f99", "bb25a54c7d63ca5c28c007e63eb9c51a" >>,
    << 834, "4b5e04b22695555d2e9337f4f0aed2ab", FALSE, "66d35170198a87ad", "ddb8d6ba", "9aab643232ad0ebbcf79ab8d4d5b11a6" >>,
    << 836, "ebccf11bf350d0d7313dfedee522f01b", TRUE, "71b53f22a2a84ca5", "2d06f707", "3f8a17f6f36350f5d398a7295115d7ea" >>,
    << 840, "87ee71cfbc70d83ddf7da175f0e4c954", FALSE, "4a31c1e1d833056d", "71773817", "9dbd10968d001f5dabccd67556a86cea" >>,
    << 841, "d61511c63fc23e8e3c4d8dd9627eb155", FALSE, "39575208cf38bec4", "5c4d726a", "d223bf6727dda3e0ec7ecb1be919b2a5" >>,
    << 845, "653c79620104cc114582cb0b82e1f50f", TRUE, "65a4d8f35a87f634", "2d60a885", "0acca35e52e0b061a97c80a6b1f6cc58" >>,
    << 847, "9e12c1be7cefaa0fef9077eaa364fa79", FALSE, "4e47620bbd2d31d6", "11bd72b5", "d74a4f40a12358306a6763dba4c158ed" >>,
    << 848, "fa614f931abeb8f5314a6ea2da7c1633", TRUE, "78f88a94d7112126", "9f94a1d9", "276739e70d7b188562b9bbcf247713d5" >>,
    << 849, "72fb41097839c52243c696ac0d8ac2cf", FALSE, "777be94ffff8fef9", "fda12533", "f203d5ebb5ae545ff24ef4d8dbf1c1ed" >>,
    << 853, "65de54b195d7c88270b6e359bc1fb122", FALSE, "5a372aa79c313572", "5814db4c", "03068a71ad3ff3dbba9feca11770cd65" >>,
    << 854, "32325448f346701487616470d281f6e3", FALSE, "66993ecb3238efae", "49c81452", "c5f1fa24e8444a362fab37b6d31b6d67" >>,
    << 860, "99802f376a91b8a53da1d126609a93dd", FALSE, "71c06e91869b6939", "4900feb5", "f4b96b598cd22c20da52a62fc1fc42ff" >>,
    << 861, "a0b5f1300ebc23582f22fcf3be32aae9", TRUE, "6fa19f7b8b498cf", "a507620a", "2339496c2c81b66d31f59122108837b9" >>,
    << 862, "ecf43ec81688a4913048b153727633aa", TRUE, "4e7e81e3df406ba5", "49a5d81a", "7e645223604eaba6dd2c0a577ae9ac92" >>,
    << 868, "cb6ac7602d610e74014049393132e260", FALSE, "5aef65118200ea0d", "dad9bac3", "af177138b44e5be50e0b2fa6a52b48de" >>,
    << 870, "84cc7e6a8007b1c8c812f9b2a13dc569", TRUE, "349eb78023050d1b", "981eddee", "6b44d4c6405463e4b4b6df574d63b8b4" >>,
    << 874, "71b5abddce0ed70556be47cc04e329c8", FALSE, "46e21a94c0f535cf", "4f88b167", "9535ed65e4a852b59c6b6da1463ba5f5" >>,
    << 876, "8193610eaa410de636af7a5ffac7ae74", TRUE, "13dde93c040ee8ad", "470bc3c7", "dc096c012e82badbcbb47a1c96bdd329" >>,
    << 878, "6f24f0b73c80a32212f7db0eff94550e", FALSE, "4d31bc3bd8f098d0", "1c7aa654", "076ff86dbd1bf0313784df0fa7dcc15f" >>,
    << 879, "7822edf32c1209270b42addca67b0f03", FALSE, "23ffa339e406c15c", "721e79ab", "fcebf0180d468c4d669aa375e5d5b9c4" >>,
    << 880, "cfcafff3c3052c05af39b2b5f62b7794", TRUE, "1f8a550c50b962a7", "7fbb4764", "5b1ef9c894c4fc4af7356ffa1c8ec70e" >>,
    << 882, "62ab559f4dea66922f409be6b60e6a12", TRUE, "195d973f4c4f2977", "f584e500", "e67c6b09192972ebb7a86ad4e6392c80" >>,
    << 883, "e352cbf720098db562eca7249bd2a1b2", FALSE, "2a3d719f44421dd6", "4c6476d2", "e0c98bc61e5e899fde9db92445df70ba" >>,
    << 884, "8c6e457dfb7db1b7609c0a3aab79af3b", TRUE, "278f32dd72c91adc", "93f7295d", "b09ea59cfee41eb6d735412189da03be" >>,
    << 885, "b0f0bc5024b1424366e3ac70a4d6b89e", FALSE, "d4a7d39fda4a586", "30561c5a", "3fc509b7542247c39a6a45ae6f2439c7" >>,
    << 888, "cea9de75b8031a5a7f258ed3a597cd7e", TRUE, "23252136345f1c2", "b993a728", "559dc7441b6c7d9d1d139dac6b0f96e1" >>,
    << 889, "a2b6bcd1841290cbdc3293009a65a547", TRUE, "1a87a35a5c2bb235", "80f13fb2", "2493ee581f9c4d23d21a65456dcfe1fe" >>,
    << 890, "8e8df7e236061d90ef71fb043c42ab79", FALSE, "17fe66912fa9cbb1", "9a49bbc0", "c999203842bf6a27c956f67b10c40866" >>,
    << 891, "bcb2f63900d2f0f764f3f995306d81c3", FALSE, "56af3e6287d9af51", "cc63acb0", "30b1efe6f587e52a83c5b9085ea7ce20" >>,
    << 895, "14154b9ba9e9345adc745eddaf06a786", FALSE, "5cb66ab8a6097934", "7c8b61e7", "9be27fe7f8e5be136cb2e3262db6877b" >>,
    << 897, "a1a4638f7d79f327dd7398771b62c0d5", TRUE, "29064977bc8f592b", "581f39a0", "6b80814ce1d107d3b1c7873a0a90614d" >>,
    << 898, "f7b01bd3df48abe612d42ae16d62c92f", FALSE, "3ac93cf395afd802", "47116efb", "39a1fa407dd196f8713580788f5c4604" >>,
    << 899, "dde1d409923fdeb54f9d900679310fba", TRUE, "727e36cbafc1cb6d", "ba983d9a", "bca3714d69fc79f150be5b7cf7b95bc1" >>,
    << 900, "5ed55db5371c8891253598f2f2093d0a", TRUE, "5fc7b5bf2c462204", "14c49bd0", "4326d5e9d1bec7886bb4c641ecc5faa5" >>,
    << 901, "46043032621895e8e263d60c5a547d0d", FALSE, "39f60fb0c61f1527", "8bb061d3", "504ca4038ea3233593921f7ab0554724" >>,
    << 902, "3a27a29f7d8a09e2f674ad0b57e63ccf", FALSE, "596d938899a80d2", "8a32eade", "03da9ea0ce40ee1bbc5b427a84c2fac7" >>,
    << 903, "a1e31d3891ea7406a2c4eaf2e826b7c0", TRUE, "6d82eb036e57c45f", "572fa347", "1461d4a7fba21708d3e1e7bdbc5cb444" >>,
    << 904, "b92190739694d472b7ffa5037d34a5ed", FALSE, "7baae44f50f422d5", "7d07ed16", "d12fe4b1131089914f68222424a5c6c8" >>,
    << 905, "c9ce7fa3bc9bb2873052ab1f603f2460", TRUE, "139588cd1ae92df9", "fe1bbb35", "2812bb21d8c9c547bd0cab3885585531" >>,
    << 906, "1f648a5e0a6fe62a43d331bd336e9f5b", FALSE, "183b8557d2eeba9", "1cd095e2", "37ef64d6ceb29fe578c5b9a6be7e3bd5" >>,
    << 907, "aeb4445198aafbda31d999bbbe8e27ff", TRUE, "297de551ec4fc12c", "bad43785", "3a50f62d25a6a4961fcc73e1e769d349" >>,
    << 910, "b21ca780a49b728b19796e38b930e9fb", FALSE, "10dc534f59efda80", "8c355472", "9c340857b4e0f63ba9fb01d6deb36aa0" >>,
    << 911, "8cc7d48aa21015df586d417e28458565", FALSE, "1b90720527ed724e", "e718acaf", "e5c470eded947b06660cccd0b9ad5d77" >>,
    << 912, "b9b6e1c7369a17673c465d1dcbcdee9f", FALSE, "2b238f97648517", "c878691c", "3947d56b9e51bc721e3ac2a073d6246a" >>,
    << 914, "3f5f74905a41a1e04470afff5aaa2aad", FALSE, "274eb1cc27f786dd", "68cd9b35", "5d0f7cfb40718501539563d5bdb6c640" >>,
    << 915, "fe402daad06c3d459680495dd790cebd", TRUE, "3df33079d2712489", "9572103c", "ecffb6dd806d33343540d496eb5cd05c" >>,
    << 916, "383a0bc5b32e6c67f32928657949313b", TRUE, "323e4645f57d3e89", "2ece6b16", "7bb06b614eeff9923e2b7ccb39c343e1" >>,
    << 919, "b60e035b43eb1bb3483f11ce5bd5c287", TRUE, "7617ec635b81b1d7", "780c9d36", "e824863472dc82e0ce7922ee873953c0" >>,
    << 920, "b2d7cd0140effae269e4fc083bb546cd", FALSE, "318cde3da8e49a0d", "a460def7", "0fdf825aa60f97b364f1cbf45e042a4c" >>,
    << 922, "f521b23653bdadc3cbdb122c53b7e121", FALSE, "1ed55a8b33f6262d", "ab386eb4", "18d97eb5ef89ccb4dc623f7d61b23c31" >>,
    << 927, "d6d9401385a26fe83c7c97619b27cb1b", TRUE, "68d54418607008d2", "7cdd4e1b", "468c07c75cc63a4656456d050244b64c" >>,
    << 929, "07db10424c1d132d73bfc3bde43aed4e", TRUE, "49200c4da144e614", "ab6eedd", "d347c7e895408958567f6c908f10c17d" >>,
    << 932, "ba38b57d03ff969b6e47db9ea6c11778", FALSE, "3bb66478652fd94", "c02c34a2", "da65f8639e6a615cfe91648f93f31c9b" >>,
    << 934, "ad8d69b182467fe989ea9d2d5c54af04", FALSE, "2cb76f015b0fee01", "8b03529c", "272ceb0a8a0200f642d04bbac5f37b5b" >>,
    << 935, "95e5f7573eae080bcb8ad38e88d867f3", TRUE, "550cde67afeb8325", "e8e98aca", "d761bc61c00dbfceb849098dba48b73f" >>,
    << 938, "6b2897e52f947bf3f83859d41df0bf2e", TRUE, "370a74a8c1ff1a0e", "7bf83113", "14b60a771b09199df945ec291e2a2aa1" >>,
    << 939, "a77f0cfef2bca4887d2e7262014208e2", TRUE, "1872adf3830f5caf", "6af47aea", "393e8ea13bb3e6e14a80356e6e1e5121" >>,
    << 941, "ddd96ad3f81091900a4bfab64f474637", FALSE, "24f2d39800c61046", "86befae7", "3231d3adf9b3ab945a72f7b645c058e9" >>,
    << 943, "3552db5d3bfea7fa8d10652ce8d2de91", TRUE, "42a710c57b143c0d", "2d155f89", "a76f011ac78ab16a4a1a287b254f7196" >>,
    << 951, "f56b7752d89ca21f8ce5026d3e6e1275", FALSE, "7ea4437c73efbdf9", "7963d513", "ef368ae320860bb2d0bc8c536c74a6fb" >>,
    << 953, "6997dfe6b97755f1451a7207a089ee76", FALSE, "62057eb0a429a3fc", "f5c63996", "592bd930e23217e760b63848704bc447" >>,
    << 954, "36ddaef335284cb937c7d4e54dc032d2", TRUE, "1bf648c0ee54d2e3", "fb7ccf40", "188de835fd92b90e5e12fa3bfcd73fa8" >>,
    << 955, "dcf470c93a648e9cfe63e1e5b6b21e7a", FALSE, "874a585dd61171", "2f17d263", "b86799d099f0ce8209003ba2e19f4318" >>,
    << 956, "30ed4c6d0d61edf540557d8a824d8720", FALSE, "595892f57f8efc4", "47031fc4", "494526f77107d3624c607157ce39e04f" >>,
    << 958, "3585008743998f4f6d30f515114e1b02", FALSE, "934f35fdada29ed", "d5db6686", "39c81ac0e608b1ba3188f7aecb61a336" >>,
    << 960, "6891edc4ef52a41d51c5698319d4a3a0", TRUE, "6aeeb166b561bcf7", "c166186f", "caa8598d688d9ea05433b02f6a5cbd1d" >>,
    << 962, "41b942112e8780fd862648a5c92f04ed", TRUE, "2dfd55e19c1cf5d4", "ff7b0036", "ff89baf977bf41e3c1f50bb4e1bb2bce" >>,
    << 963, "2ff11d8bb70a88eb94ce028b97253ddb", FALSE, "3b6943e4f4d3a87a", "2ee203f1", "783e7e50cb0916f6715b7b806cca0f51" >>,
    << 964, "02b174e3f105a5866fa322deb18b2ec8", TRUE, "1a0ed9e174dd9c09", "700ef256", "10bfaf95afcf9c60c18a38325f03d0d3" >>,
    << 965, "119983cebcbad142b1afff2523218db0", TRUE, "3268e32db4a87005", "77e429b6", "8b8c61d645963c387e16430b9718b6d6" >>,
    << 968, "678ee9fd31233afe637ea477b629cdd7", FALSE, "756187d688dbed29", "3640cc69", "5b08458a75a7c585e6c4fae68991530b" >>,
    << 969, "73880373ddfa1f8c04d7a38ae4f93151", FALSE, "62b2fe35a5fcd32b", "be353707", "99bb53cd4b88aa8c8f104be57977e54c" >>,
    << 970, "ce8fd539442d84621b610b3933e31262", TRUE, "1bb0aa4081047cb7", "a2288c2b", "4386376c0ceb70a9a3e6ff1d35add0d4" >>,
    << 972, "46e2a38a3bd41bdf3fe554b7cee2e637", TRUE, "c7dc7bffd71b70", "8def0e21", "53ebcca3d3bbbd82037be075779da543" >>,
    << 973, "01e021cc37f3ce94f69dc8aca5a1e252", FALSE, "781820d0d7090985", "6ed9a816", "6e6653cce440ec367c248511572833d9" >>,
    << 975, "f37d44e15b755c2dc2bac0202d279e2a", TRUE, "96ac1a8dc053937", "f531fc0c", "28dd33ccfb27309d7364e7f774dd6936" >>,
    << 976, "5dc1042cb20459ba0d36d625b8125edf", TRUE, "650358dade52ea5f", "35c1cd79", "b9bfb1167d5dc62dc0be46aaa5eaaa64" >>,
    << 977, "1140890d3ebf96e8280c9c5e4b4307d8", TRUE, "36372cd40c689494", "faf14a49", "bde1ca57f564c11b3a7f1f3af1b68858" >>,
    << 978, "78ce59c81931d6f0ab06e0d29cde0e81", FALSE, "3fd38027b9719d2f", "327451ed", "7b5f53603199e3c4071562aa58303b89" >>,
    << 979, "b3209a72e45e87eccaa94db9a7bb506c", TRUE, "452c350b694b417f", "c780c500", "fde5fa05d34affe4c319c1a1abd6ec3e" >>,
    << 984, "eb2cdba07753fc900d1658da0fd5e579", TRUE, "5bbd877df9a8d3bd", "d10c9a71", "a97066fef742474a3f821ce2119e69bf" >>,
    << 985, "7a618af218ad8e57efb5489d944c2e1c", TRUE, "55ddca6096bc1d37", "a7b9601c", "cccd6a083178168d4d868507aaa9140e" >>,
    << 986, "654da51b83fbf9d166fcccc3b898e468", TRUE, "945a147c7bd7ab5", "5877c481", "42bb5f57ccc09bcbde47d5e911da3f03" >>,
    << 990, "606c88df4c19d0d3a3db6d3c3cb5696b", TRUE, "435c59623a5f6af6", "226ff0e2", "b9ba1368b16b1a140e84be57072cbb2b" >>,
    << 991, "c7cdd9bb899e5f12046c5bbb271dbf80", TRUE, "3267a01019f9dc93", "b67d3de8", "030ac55c5440cd79bc4c8b75266209de" >>,
    << 993, "494c8e7f8d7b0ecbea4d9a3afbacf5a0", FALSE, "4aa503b6a15dd151", "1548c034", "3cb878b15068859d5e41778721c398f6" >>,
    << 994, "9a274a909c9fb0eba3f7badaac40a439", FALSE, "5335cfec54caad7f", "d5a3575c", "4602367cf74a43946694ee3d69983026" >>,
    << 999, "c04cf3e36dee33c9aeb8070d375814b8", FALSE, "12f948f474213cdc", "db938f75", "693e40937199017d503c09d29a93c2f4" >>,
    << 1000, "682d535cbb595bcd684ec0191116838e", TRUE, "56f48720365b0284", "512bc70c", "68c532233da7064fae36bf582b690967" >>,
    << 1002, "2831384a077ce6577075ce4720889f80", FALSE, "251f8202bd5ccbf0", "f4a9a0d0", "083439105140f161de8e1ccd9a853f18" >>,
    << 1003, "de1ecec950423dafe1bc6f4b291cd586", FALSE, "5955dce5e3d79a88", "acb5651f", "d3ddb5e5b6c4830d45afc095206fe6c3" >>,
    << 1005, "840d531aed65cd0366968fcaf368d9bc", TRUE, "57cba5a89e2a5c09", "b7beb53", "94744c58d92acfbcd21ea14212e77099" >>,
    << 1006, "601efd43ed7de1d2df5359a2aac5861f", TRUE, "1a29b60b82713025", "ae633338", "c6d7db3dfff2a8ae139b2414c43cf921" >>,
    << 1007, "75f5bf6295f20413a75b8af974a69f41", TRUE, "308540ab34dd564f", "c2d61e34", "29369ad33ae28bd06243dff8b90372aa" >>,
    << 1008, "e6bd3af43c1565c31bdc7c0eaccd34f2", TRUE, "45079bec65f9edb0", "3f6dd9b7", "1ec8c248645beeaf283664b7243cbb51" >>,
    << 1009, "ab4608c013cf43eaab2a04920dad6c01", FALSE, "50cbe1c626bb1ff7", "933fe6cc", "dda6d97d8ffa9fd3fe37a7ad9808749f" >>,
    << 1010, "99554ef72c00216f4b81838c5eafd64a", TRUE, "ea77324e27dead7", "b2ef403c", "d8cb99616e694789f06adbd4f9d6c707" >>,
    << 1012, "d4c4674d4f9e3fc1403d7f195f0fa08c", FALSE, "1bbfc0d3b2a61445", "4df05dfb", "58b6d19c11c3eafd92f957a8f3239a94" >>,
    << 1014, "83ffcc362ee2c77a0693e5a08fc7c70d", TRUE, "574034b6d1557d06", "37a04771", "0d083824f7f8874772b6c9f0a58d1244" >>,
    << 1015, "0edbfa83e4d6e4d38ec3d69eceead2f0", TRUE, "47d3963ad16729be", "88155f2a", "20bcd48743a8d91a6b81033893a4a1fd" >>,
    << 1017, "26cc24d4771c1c14b8a018b6f58104a8", TRUE, "5fbae06a0b8c6e43", "51a8bd8d", "bdca2518c1c43f274beea1a7d0358c31" >>,
    << 1018, "7bc3c1772bb44705d40ce8ee654264f1", TRUE, "1f6c880c501ca4d0", "bde967e5", "d08cc058883b7e4cc95bb66a7aab1f1a" >>,
    << 1019, "771ad49e1dfd507eeeae332dbad26224", TRUE, "5e126d18a84e0dff", "5dfd6ae4", "392b46ebec1428aa414f32c1d4aea13e" >>,
    << 1020, "dbc1042b8448511081c8ad2e4bc3b2b1", FALSE, "34b3f8baa1ae61b8", "663acc67", "7814b6bb86a8799904465c089a1a4ee2" >>,
    << 1021, "62c7462938d1b2c8983aab93ba64e280", FALSE, "52fb8f46ecaed019", "ceaaa98c", "e2245aafa3071968caadc8598029a08b" >>,
    << 1022, "dfed81c7f16ab8e22dc170968610f69d", FALSE, "56da58dbb7132402", "e13040de", "c7082cbb5bde89ee055d97657ade8186" >>,
    << 1025, "d432ff8f46a305fe8384a50e7f0bff41", FALSE, "59546f858b9e75a2", "9622c362", "add96c85a7ea5cc53945d5f83e95288b" >>,
    << 1026, "922fa7d681900e23980de89ba0771a4e", TRUE, "4f907b5dd47f234e", "bf447e02", "c6eecb194c3e69b0e8d9a0fb8c16eb79" >>,
    << 1028, "dbdf3c5d09b1b5c1b16490b2083d9b07", TRUE, "3d9785a5987f06f5", "eb18c705", "dcb432db3d95a310320ea84aa903156a" >>,
    << 1030, "5d72023c3e402025bb7da4fc239ea12f", TRUE, "4bc4730f9e6f070e", "cbba9c8c", "e6a6a32a37120911f1d183cb4a9bd579" >>,
    << 1031, "5bf6c6d0d21563414aee9c613baf91d0", FALSE, "7a25c35f7417b28c", "686b9f07", "4951913fc18a2b13b4a0a5bb26f5b8c4" >>,
    << 1034, "297f41164ed19c9ff99a3d668b04044a", FALSE, "14c166ed5b1c6cde", "3848bbed", "7d15b5b2d2b1489f0bf7a69955f40a45" >>,
    << 1037, "e2527cde7958f09e7d5f173a56c887b1", FALSE, "715b1ad1e455efec", "1b987376", "97d53b63089960a80579d7c9a8902ae0" >>,
    << 1038, "e11affe2d9ac283294588761f2b07b71", FALSE, "6ebb54be500413f5", "d63a8700", "5fd4f570685bc94dad24befc64853048" >>,
    << 1041, "63439a771d18175b16661dacb51582c7", TRUE, "3bc56f432d1e0868", "8def52ea", "228a409dc9d36831dda24aaba913bc21" >>,
    << 1043, "8212947b172c2f772e3cf96cb7d79340", TRUE, "48c629f2c848f8b4", "a11cbb16", "ffea1fb65cf0cc9a146e5bdfff3fe1a9" >>,
    << 1044, "b230a3298c46a7034dfb19e8d3ce6c9f", FALSE, "7c613b6e2adab6d2", "abf48b44", "5a6ace95315a8b17781ab7eab7826962" >>,
    << 1047, "53e14ae16cdd6191210d0a20bc1ed653", TRUE, "263ccf32b20f66c0", "9ec0c50c", "f984322a59c89f1f96805bd4f5f8c1f4" >>,
    << 1048, "d983c38e7372e9e66de97af0cb688ce1", FALSE, "6c8503692fa74434", "24d7ed32", "4e072e30f46c27d7d2f1c5cbaf6c7843" >>,
    << 1051, "1f07667786acf97057c685a64c2c44e3", TRUE, "63be6f8c296684fb", "904f4819", "102d87891870df284ce45da71d9e0273" >>,
    << 1054, "d1580713a74aed400c18d4bbe3bafe23", FALSE, "326e2af7a113e67b", "945fc1a6", "cba6d72183b6b5537fb751c1605a0eed" >>,
    << 1056, "577bf490100a1e3496f7dc8f5bceb306", FALSE, "666ba6eeb1b06337", "5413f5ed", "e9a674aae72e9c5c17d9bb53f8afb9ab" >>,
    << 1057, "127727bb2f47d759c325a086874c5ed8", FALSE, "6ccd5a2279ee9e33", "b063e20e", "3a3f9776adc9d4a6202aee028e531742" >>,
    << 1058, "5a6770561fdecf4ab7f0a95b31c1525f", TRUE, "52647df993ee9a59", "4fd3058f", "34823e12a8f7938ae8ab52a5f6be86f2" >>,
    << 1059, "208206e3a2dc9ba456de5c660bbed71e", FALSE, "29d828b5ef8175b7", "fd364ef7", "1be9e22f515c839fcc06f3ee33e20f1a" >>,
    << 1061, "63ad4b97ef624f923ce477f44a40c758", TRUE, "6030a90aca2c73bb", "ef8bc8dd", "ab9c75731df07ba22e8434fd1ef00481" >>,
    << 1063, "a9c6313f49895baca371feae80272288", TRUE, "6f736cedf82e886a", "c7aa59c7", "d2b68bd7ca068c3a6f5b7fe644a67caf" >>,
    << 1064, "8b476fbec78b5905e64c530b53668ecf", TRUE, "5d4f7a75ab83282d", "ca7c1133", "ae8185bea51a37ed441f2a05b2c193bf" >>,
    << 1066, "66f62e679be58a38baf4e3b95f01eb82", TRUE, "74448665df3933e3", "b711b5b3", "c2a28dd04c5896755dc348f02e90c637" >>,
    << 1068, "350d9b5d0e1a065712754e70c809750f", TRUE, "3784aa5a0fca82b2", "6ff73d64", "adb230fef7f93e2263cc4c64b55275c2" >>,
    << 1071, "38416585191a41eecf1e1e03f9f1a6ba", TRUE, "7726c00a3565a678", "5a2d87f9", "a97ad265a506b59f9e8f3e18220b8b47" >>,
    << 1073, "b2f1620e391ed8f65646d5a962730732", TRUE, "76f3f528fde65c8b", "7d5dc4c2", "1dc2b066189f4903472063b62b4ef3ec" >>,
    << 1075, "b8419511317f3e52bf771412d81e6729", TRUE, "3f3f44922329496f", "ad0f9a63", "69701dbdb4a20a838a648a235f4e51f7" >>,
    << 1079, "8aa69602895ab2c7eea6f4a048631496", FALSE, "4a0592670c324e9e", "30256ef2", "a55ea67fe817bbc6670f5e5a3ec4f065" >>,
    << 1083, "bdc131718b38f387e519ae4ef6f190eb", TRUE, "60c263d05ef8f3c0", "dce8a4d3", "fd195b5677135f8dd4816f0eb2a668b5" >>,
    << 1084, "5310e21c083e901219c92cb76e15eb08", FALSE, "31d882195951ebec", "7b01149f", "8b0661e02266ec2c7f06726c3c272fdb" >>,
    << 1085, "381d8619175a39f4da69df494af422d2", TRUE, "51c9005032b29fed", "36713174", "1535bacfc1707f811ecd110a318dce99" >>,
    << 1088, "350ea0e3d16e8e84864e7bb7c2ade44d", FALSE, "43d468e5222244a0", "56024b2b", "0ec0ae8e4638f4532f9f7d02b8ed2b9a" >>,
    << 1090, "20fe66e0286925b49cb0d3cd3e9bded9", TRUE, "51a00eb2565b4451", "284274f4", "452455e6cb82e7fb7ba2bfab2fb7542e" >>,
    << 1091, "42e82494973e7ff960467e5cd5ccf641", FALSE, "f6d72bb2b188044", "2f7f9aeb", "98ab797e2a115401bf75115d0592daba" >>,
    << 1092, "2f2c7916e101c5c59fe54883571e9eec", TRUE, "582f328eb34b75fd", "f0314adc", "627bcdd0fcb92ae7d67b4d3cafef6e97" >>,
    << 1093, "76ac00c1d36e54cb36d164f971199aa9", FALSE, "30bcc80aa12d9f43", "80dc4583", "b35ed3165063d851f8bf0f07a459a12d" >>,
    << 1094, "73ef95dd93e8e7e1dadabacbc0a4418d", FALSE, "5e13d97c7dcf924", "fe8dd8ab", "d6460a5d89ff4ec36c77dbb6dfc88f8b" >>,
    << 1095, "789a51e24921f2639e0ce5b4f28be2ed", TRUE, "52e485188098fd71", "ee0f3eed", "351c84bc91a97bf62140f612859fd7b7" >>,
    << 1096, "f2feed74e9f774b16d378f96f59b63ae", FALSE, "7169a11fedbf190b", "d10287bc", "828e4c5c842fcb986a8f1beb96ab879f" >>,
    << 1097, "0b53346503b3615b39ee6911db0c5537", FALSE, "3674c71f8358e777", "a9d18963", "bb19a024f9557116f73883ba5b9dcf01" >>,
    << 1098, "003905054bcc07007acdd6faa36ca42e", FALSE, "bf7539740e7e1a6", "fa541f76", "549f41e15015c38d92772cb7bf5c1118" >>,
    << 1100, "09c29f0b7aaffc54c02b0e4fd8d99664", FALSE, "3187fb6df939bae4", "ac0e336c", "b5a8ca8d637c53cb51b56d4c4158c856" >>,
    << 1101, "c1afccb498d7a2bb4014c023871883b9", TRUE, "66d8e72d3061979f", "f5f6e645", "7bfe8e7eb812200e9745cda5f858f223" >>,
    << 1105, "55aa02a8882a4443b9c78e28d2844c12", TRUE, "3ba25e2dcce15920", "e7e6ed21", "9efc4a220422d22c8439403c2db01ba6" >>,
    << 1108, "81699ac7ef1ea76b047b5f2998370644", TRUE, "502e01dd488eb0a4", "e963ae55", "d844cf32226bd6eb37bb0ca66a671612" >>,
    << 1109, "c8dcfb9d58bdfb28bf63d341752ede3d", TRUE, "38f2593cd1266381", "ceaeb319", "73bb35f2178d4f8f0bd9c3c33808813b" >>,
    << 1110, "3e2026d1e57fd7e06916876c631c76be", TRUE, "327faaf16d1eb414", "9338e8d5", "912db5bdf8a0eb94e652c91efa7864d4" >>,
    << 1114, "24d18106c78d6ba59f1b943c2fd3fdfb", FALSE, "1065ae15018e215b", "d3a2e3c1", "4dd9e3d2c56de55057012a60d1f3bcb1" >>,
    << 1117, "f56199957dd944fe459c285323037dfc", FALSE, "33b60aea443580d4", "3d7039f0", "865839b27c7d9ea2cd816ede07483c63" >>,
    << 1119, "da1a78dd707b9c41f7be64ccbe612978", TRUE, "307ae692840d94a2", "42828088", "7422f122a2b2e9ff9628d5174f260691" >>,
    << 1120, "0ab472fe0eefdcc3bd3a3ad47974b71d", TRUE, "302b5172a96cb59c", "2998e01", "6224757decffdb4526348d9a517d9acd" >>,
    << 1124, "fd2a01e786cdb47dff88159544fe263b", FALSE, "619d4c6293cc380a", "61fae798", "109a08154c2a6de86e4e5384a7238328" >>,
    << 1125, "bdc2eb46caa56b81a9ade58cb90094bc", FALSE, "541542280b0c9eb7", "aef30612", "d94f7f4e88637dad37e330b4b13c3708" >>,
    << 1126, "e580f58eaa1be9dcc7d10dfbac7a33ea", TRUE, "2a98d9e109f6835b", "b746ec7e", "beaff02d75ceca9bbb6af13f0a9270c2" >>,
    << 1129, "8d22f37115cc6804df10a5658020714e", FALSE, "594de26f5f4794f2", "14cad566", "d613d77b4e315c52cde4c0b1bb7c2f6d" >>,
    << 1130, "134b0f27d4c6a61bd3efebe6ebb02ef9", FALSE, "2ec3ffb00705eecb", "b035d64", "0cab037265155645a465715282f8a331" >>,
    << 1131, "2d5aee4973d237c311845d814e4566ce", FALSE, "3b4248c903f3a998", "ac8ce345", "44b2c3aa2241b04ae86e0029da6ae1c1" >>,
    << 1138, "99d20b480c0143e3daa85b41057e4a57", TRUE, "86b10affe95654c", "e766903d", "21aa55fd818f18f473bedfdb26c72660" >>,
    << 1141, "6b94d14c114480fe579a14320507d097", TRUE, "6a67ccd5ab0ec484", "68acc4bd", "9d57202678810fd05081f12b40016a13" >>,
    << 1142, "5225fc464a2c1a484e8f21d02c9568c3", FALSE, "6222196782f8776a", "11af6b1b", "15c817b84a84082b0d9feb80e63aa93d" >>,
    << 1143, "68bc861c14ba24e508e24a52e9772a4e", FALSE, "2662370f294f56a1", "862d9371", "46926a5584688b079d77c8e62d3c1997" >>,
    << 1144, "79eef7155c6abaefa9dc0cb20e1b0be8", TRUE, "7146b34e59c2045c", "374fa57", "b23450c888e369f4452ca66fd981ddc4" >>,
    << 1146, "d5124bffd8aaa535164872bfedcfbfaa", FALSE, "1916307e6e37367a", "a039008e", "da0d2465140d51c66d46035d8c21c0a6" >>,
    << 1148, "0e58315e559d8261a45d0a697e06162e", TRUE, "6df24f85b7b7669c", "87ab9b25", "e91e056af428d4e76c338fd1fa3e2990" >>,
    << 1149, "08af1dd78d493d0e6058bb80f160f782", TRUE, "62c8a47a91f7e4db", "9de8d8b", "12960acd475bb99e9c02c3949195b21e" >>,
    << 1151, "edcff1b1cb97856f722bee28957f2e32", TRUE, "a49318aced621d7", "3ee3e466", "99d1fa39aa2eb99125688cf0c5cf18c6" >>,
    << 1153, "c42217d09a83c76c43da6e175c109df0", FALSE, "1d2d18c39e27c849", "c66b9da3", "19210d82dd62e83856b948d7acf0b601" >>,
    << 1154, "e3191ee3604db5a5f082eb7b6ea400c0", TRUE, "17dc3b47703fa848", "d7956ab0", "57afdd088b586080bfd93132d0b25dd9" >>,
    << 1156, "6741dfca5eaba86fb2ecd0ab90fdfa19", TRUE, "5b378d6a5a411ed3", "fb5466be", "badf31bf000e82568ed2f961a0faba8e" >>,
    << 1157, "c917dea035f1baaa9f9fe41267c62f1a", TRUE, "6e5dc769c9fd545a", "981b239d", "726fe156ef8d2865f9e42165cc4cea84" >>,
    << 1159, "dd75cc7152a8145c95010c441829b460", FALSE, "535209c0daf9c7fb", "19f87ed3", "f5166220d058b32e1cdb2526f05c29e9" >>,
    << 1160, "5ffbf76453bd89f4429ff747e0a5af59", TRUE, "72b8653f93a5cca6", "2d208696", "e4fa57c370b8935cc8f806123d95ad63" >>,
    << 1162, "ae16442b428b08f2abf49a8ce1db7c92", FALSE, "674ff541a2f97590", "f10adfb6", "38a386fe13d55630f67034a4f0d98ce8" >>,
    << 1164, "96010960f8bd3d75f6ec2e3d82c385d5", FALSE, "5abfde1162c06f1e", "7e5701be", "86c2c3eab8224b65185e9f1d2449d374" >>,
    << 1165, "0044bb389b113793c91df7194d14fdb1", FALSE, "165e9d6d32e9359c", "b9d57b4c", "26dbbdbfa45ddcabafa0f03e9b74b434" >>,
    << 1167, "b51bcb4c2bcc365334b0d29c19c50be9", TRUE, "32b67d635d24304e", "e47232fb", "c2b65d569126f0dc56ce7dfbcee43d9d" >>,
    << 1172, "9bd31323c0cc05deec40ee4b4b112c6f", FALSE, "6947f29210c6b929", "7292ac7b", "2daa1f1ab8bcef6532dd71baef64bae8" >>,
    << 1177, "1a2052db8c273723305e84f7f55e34d6", TRUE, "2b4f7899be2da271", "fe15686b", "783173f9507eb0f872b69c13e73e2e02" >>,
    << 1178, "caf2f60089e911bf449bf498922f1741", TRUE, "3b457ef4cfcbefef", "4b55f175", "037e65ab4d6918879402f8523fa0be45" >>,
    << 1180, "70c8c3007813515daa9d0c40672c30e6", TRUE, "468bdbf5605aed5d", "87fcbe39", "15e833fa71a6d6e21fb95c3eeef7dbb0" >>,
    << 1181, "654a4162cdd7f41b964d99ff26334b2f", FALSE, "5653c580c9b6015a", "ffd6884f", "783dcbc47aa5cd0894af80bafc6ef5c3" >>,
    << 1182, "2cfe1dfda438739587c0fe2cf28f1eb0", TRUE, "514753b6d6f7f328", "b6937644", "1d074369ac725905e933fdf738035aa1" >>,
    << 1184, "a41e069dd4784baaa818104ceea1016e", FALSE, "5d40b072ed2b50f8", "4d8db77e", "723c6ccc6a2e683ee927e559882d5f75" >>,
    << 1187, "4f9124f86a7ea63d754a0ca0ce680f14", TRUE, "3e7d1b857878efe9", "c35ff12f", "ef045b5c620724df2736726866916cbe" >>,
    << 1188, "c28bf2ecfbad1060a4d43b683102f19b", FALSE, "58fd73d7dc494400", "f20c955b", "44051d488ee1f3c6bc8e844ea351dc24" >>,
    << 1189, "3b5d5d12da4371dc07bc17756fcc4c7b", TRUE, "22c8adf9d76ea2da", "eeb110a0", "50006293e6232dd01976ebaf6ab0d1a2" >>,
    << 1190, "36135dd2055c381d2b03a3650f5f648f", FALSE, "71bbe4cc418682df", "c1f56ee1", "38832892515ac935f1f48874d52d5fe9" >>,
    << 1197, "382f20afd2b5f2694511f6e3019e4192", FALSE, "19c9350586e7fab8", "eb7ef08b", "e519086dbc51d627cc3d9fb8a6747269" >>,
    << 1199, "936fe6c1053af3b571484fc75e71e328", FALSE, "2b3dbdb0623b77c3", "1ee0759", "3bfceb4a5a26a36ce397376ff4cb66e8" >>,
    << 1201, "39e84a634fa7558cdf663fae22c267ce", TRUE, "38129e22571e718", "d3e19c94", "d510afeef9266f956f1ebfeb99fa7b95" >>,
    << 1202, "277af14acc152bd5aa95d36ac3d12537", FALSE, "544ac81b2fac48e0", "80c7ec75", "8b43e0fb999462d82ee7064feb802fb6" >>,
    << 1205, "df794e0d45980ae3264cb5fde0c9b5f5", TRUE, "7f858a467946943f", "bf2b6a70", "e56a5eb1aca8321a57633424daf81955" >>,
    << 1206, "e91f19354e35e3670c9fe9f368079f14", FALSE, "4dde27ddf91cbfdd", "7166b0bb", "6cea6f6ed3b8b50df91056ecc608961c" >>,
    << 1208, "ff4c21488c63921602be63a53d5730a0", TRUE, "3a6b99b3d6873d9", "1693ceb4", "7b2b5492b062cfe82fb81b34a75c5878" >>,
    << 1209, "25593e9b61f5c6d25026ba013856f7d0", FALSE, "72880462d7fffb74", "736731e5", "1d64549bafddcdef9474ec8bfc2cacc1" >>,
    << 1210, "b87c7830d811a470240c269828132a24", TRUE, "72742ddb3cb909", "da9515f1", "623859f65b43097ac1e439f637501e89" >>,
    << 1214, "b4278950f4daae31aae385c09c12aabc", TRUE, "39771ad8190a330d", "dafc1146", "2bf4498404d41d1497ad4d152757c7f7" >>,
    << 1216, "3f1bb84caf1b7387b4dfeefa9bf6cea0", FALSE, "38dbe19df82a8f52", "aa5c7548", "e478c973cf0d84199a563f131464c387" >>,
    << 1217, "b4beec778ee2d01d23d5818700ef0f63", FALSE, "9c76e4113a92d17", "49d570b5", "6209d2d9f96e4817f89050e961cee083" >>,
    << 1219, "bb270916844e364326c7f598b34b4ae1", FALSE, "5fa2f20b433ed836", "9556f0d", "6091591d19f37a26ac23b0ef672fe39e" >>,
    << 1221, "0670560408d41557350f3a40e6f3673c", TRUE, "b16f1b18d9966b1", "89638409", "49884117542506956a20c22cadc13625" >>,
    << 1222, "f4fb1f582b24a01420517599fb564919", TRUE, "46811147492863c2", "2d01d9da", "fbe10cc5c0c47edb5c7dd3acbb563c9d" >>,
    << 1226, "3b6b693a0bfa7f8b68e1957c59ce1c42", TRUE, "4cfc62f49e03181c", "6f27c9c0", "d7be6beb49e538aa31af926e7322671f" >>,
    << 1229, "fc850551007ead22bbd6d966aaf49739", FALSE, "7f3c49ce40154bd8", "7d27c384", "4b428db5094b9c0a27463dd3ce0edee5" >>,
    << 1231, "1ae2c52b4b444ac2a9c644abfa1c606a", TRUE, "4ac2a826fbb61b06", "7b57833f", "f182229d134214c7262d4c7f8ab04ed1" >>,
    << 1234, "c09e8e8b8c6a9cce8a412f40a00e1ebb", TRUE, "4e7dc0810a3f941e", "9971c039", "14a3cd35d153ae6337cf73825e591575" >>,
    << 1235, "b722fcd827d6451a61c4a0bfb8fc2f7f", FALSE, "22f4d1400e6e12b4", "51ac44dc", "a9cdd8eabf0617ffbae7167f1ef24734" >>,
    << 1236, "065c382bafcea9c686c43f44f7aaa4fa", FALSE, "1737aa0c1f26bd0a", "5e1b4735", "08bbf682f5ba086d4018b469d77e665c" >>,
    << 1237, "8ce89b5a6d9876993617406a9a8919e7", TRUE, "60df6f385405db4a", "c60f72d5", "935b0c8e02b6e37d4cd225820ce02ea6" >>,
    << 1238, "340129aa4ecfedb4c38eda22803a2681", TRUE, "4ab635c45ba0701a", "6164efc2", "475fe42dcdb8919ac58528aa8793f6c1" >>,
    << 1241, "133859c321741017f6995124a495e2f4", FALSE, "590d74cfcea72ce4", "3a178ca0", "64af22249872fe0d1465bc68f9d8f98f" >>,
    << 1246, "3fba422e4a3f32ba7e80c313f4861754", TRUE, "4855ed92055b4c2a", "bce77000", "74eb91313705f7f47ee7f5448d187156" >>,
    << 1249, "e130efdc2ba88ce6fd4a1d8e36983b04", FALSE, "c7a8a319fcbb17", "aa0a3268", "df625c5e82ec2d3eea359f2ca07f17ed" >>,
    << 1250, "4c32d5972ab5a238658f11db375292fc", TRUE, "46b348750cb8b27f", "4169f8f5", "a04d7a8da0578743e27de58e2f2834ef" >>,
    << 1253, "b6948a1a2fca4f6ff5ef18fb03898e22", TRUE, "5877f34008ca514", "875e3df7", "b06bf9cf1b3eec195397adc4d722d920" >>,
    << 1256, "807f60be9b9a5dffda0f0aafdc3f275d", TRUE, "58dae3e9b8edff72", "53ca500a", "e639f67dce9dcf93a2a64e7fd9a42af2" >>,
    << 1257, "1594b945e2db0695db974498c58deba6", FALSE, "39ade6e2bf6d0ced", "70d434c6", "9ec2f5a4ae8f35f592674cd1833443aa" >>,
    << 1258, "6f009dedc4955bf368e8b3884e0264be", TRUE, "647206982cce7c3", "ce8b061d", "37ff2f85fd71da1ff3e60324a0f995da" >>,
    << 1260, "eeb87b35245831340e0074f3eaadcdc7", FALSE, "276f8fc875e34d77", "3894d90", "9f58ae891dbb2badc433b77c0f32d229" >>,
    << 1261, "ca47763cadacb65fcba0a378366c9fac", TRUE, "391362814e7ecc44", "ca2f88d1", "7bfa7ce3ff881253bf1aba86d73c6530" >>,
    << 1263, "43aa55a896d5c7dc361cad6f282861d0", FALSE, "87141f0185e4999", "de4251a4", "3e2e8ca4c9e0a23f6b86beb6942e21a8" >>,
    << 1266, "0e8bfeed8d2e91a35459b92a6b8e2ce0", FALSE, "4fc0916ea1f22956", "44095ad", "2ba89c7a11daa083bd6a1e5a7dee977c" >>,
    << 1274, "04866725343902ec6398ecb9da4bd43b", TRUE, "53dfc5edae13abaf", "96c3033b", "442e04eddd2a1c25de691467547ff88d" >>,
    << 1276, "613757260737d858c4a0c415d2096dad", TRUE, "18a2c8d90935c2ed", "68f44f9f", "bdd686c29149595cc5791f94f8127194" >>,
    << 1278, "58a15a8e0e893c51b5307cb76b7bea8c", FALSE, "352cf05b2b213216", "159fd471", "2476f433c8da8f7ab84cf505cdf6862f" >>,
    << 1282, "11e4b6727980bd4d364b9fd841caf8af", FALSE, "7853a8a485afd32a", "837196f", "1f403d2299aacf52e2592b4e845194d4" >>,
    << 1284, "7c730759dac7403841af1beea45c6f52", TRUE, "5aaf4c27f69f438d", "6d888b08", "3898866f9266da98e36857dc4b9686b3" >>,
    << 1285, "495dd1b1da5e8b21046812d060505011", TRUE, "6b2dd291ba7a6752", "158f3bc2", "b6de20c9ec61b9068b6f8dc651ef6d78" >>,
    << 1286, "c373a4eb090ca2b4dd1be1c13d768f50", TRUE, "43653d3a48294978", "9ba408eb", "5b7d58c4bd926e54b107556d89c00877" >>,
    << 1295, "5696bfc77a581841ac1b799be3753d5c", FALSE, "565d4635371fdafc", "602a2f3c", "07e38fd571da46a3b328043af8feb567" >>,
    << 1298, "4f3ea8d45a0dd6dbd0c46926c51bfc5c", FALSE, "539c0d614b4d3bb9", "e1c1cfb2", "0bbed58b13d244027392fd2e415b35d2" >>,
    << 1301, "39d18c71bb2f3ef4511838b91873f006", FALSE, "297eb1583db7fff1", "dfa251de", "1719e24da419d708208f743d390ece7e" >>,
    << 1303, "579a6ee50d3b2abfb14aa01e347b0d01", TRUE, "5a3796c7179b4fe8", "5457bb18", "5aab6faa9df110a9d256d74bb925212c" >>,
    << 1304, "d6242cc879c0d64a63752a3efb5bfca8", FALSE, "62d63f11ca1ab377", "299aee50", "6d3e1ccb37d0bb3ea0aab29561ef3d71" >>,
    << 1308, "81240399ee60cbd8d276c19d2b1486d8", FALSE, "1e961eaea7f56b20", "e26b6cfb", "497adb6db3948634cee711ea2523a7bb" >>,
    << 1310, "747120fa5be710bbfaafd25b41cf9196", FALSE, "cdf829fc85535e0", "68ad392b", "dca9e888f423c523647375612ad74da5" >>,
    << 1311, "7a399aa3730c055c2c1dc2d2f82c361e", FALSE, "7777755999eaf1ba", "354b3817", "f159392293f6dd0498a6fbb62dfeb7f2" >>,
    << 1315, "d79f2fada21fd7b77c2b6af991b5980b", TRUE, "8f235e8abffe645", "676b5ea4", "1baa75ae04f5991532ca635261567640" >>,
    << 1316, "5a6b7e45808511fa7d01aad203855ead", TRUE, "816105d1c8fbbee", "3cb6398", "205d9a4f8bdca5494c0f34de7a247522" >>,
    << 1318, "555e2e948be0dba95cb6383f9a5ea655", TRUE, "75fd1fc28956af22", "36d9d546", "8dc73a56f5a35e366dcc3fb7bc5d00bf" >>,
    << 1321, "3a05009e421022396160c1162eeb2156", FALSE, "7de3342b32e620a9", "5b35730", "8e151466b2b19f5c60a2f3c439d91caa" >>,
    << 1322, "cb425e3e2ef296e9487abfcdf7a8a74d", TRUE, "1a76820a69ca86e5", "e977d0b4", "ffdb163ab99b67a668643e331d917a82" >>,
    << 1325, "a9a51d452eac743ac2b072988a7ba793", TRUE, "5f5e9f3f2dbc7a92", "f5f34d95", "b1ba2c9245b668d374833b69814da4a0" >>,
    << 1326, "67cda343816ce1bd79a5312df2410bc4", TRUE, "311dcd75ffbc5653", "b9bc2558", "8d358612e0f0c8e97dc3e534d1db757d" >>,
    << 1327, "5121fad6653685b8d78a0ed8a1318138", TRUE, "8c782951a0b5298", "4104bd94", "ba476a0260c68a86c0324f841c630f56" >>,
    << 1328, "79bfd92b144dd9683bf52d889efb1ada", TRUE, "7de59ce1875c53e2", "a7ef21f3", "401e13e9f99795ec2479012780025904" >>,
    << 1330, "d08f3200908f94b21fac41d08c75bcdb", TRUE, "4294a71497b558dd", "8477d4a9", "aa422f4171615e7c7aca0b3f275c643a" >>,
    << 1331, "98bfa005c5754f228dc8c30ca6872b1b", TRUE, "7e6e737e7f04ef56", "58b9185", "e4d65238e96426016e97c8f62b0127b7" >>,
    << 1335, "5d778b2c348895d396981ec61d80df0c", FALSE, "5c2aee46b7e20bea", "3fcb50c4", "27c1ed3a46db2db6841f847e8aea966d" >>,
    << 1340, "226d68001bd0cd256c1c4aecbb7b39ca", FALSE, "766e7c123a1abc10", "60a7f5a4", "af3a5060b4f6aedd1a9939cc2c144451" >>,
    << 1343, "51164ae3d035cd73902849668556f868", TRUE, "94c095a3d1efabf", "834c35b5", "45cc730232175de35209c13aac4bb4ff" >>,
    << 1344, "c3680813e4e3ef6310dd9d4b2f22d133", TRUE, "41bb1f06bad9fb5", "dc08383c", "5b051036a1e74e41b78d6030f2a8ba25" >>,
    << 1346, "3dda1e2b3dcdf97646a5e49d8165aef4", FALSE, "45e299526acc3395", "8d5e2dd3", "899cd465d45d3866431fb8cbeb54cd68" >>,
    << 1347, "0c0363f6b0e67ed4fb726401e4329530", TRUE, "3c3655ef09dfa39", "888cd06e", "31a751e167c6962f8dc90341c37ceadb" >>,
    << 1352, "6f93a85be40ae94fd11a9510c719fbc7", FALSE, "731de599d40a1014", "cee4f726", "adaa21b02d3aa0e09c9cc1a75f93ca44" >>,
    << 1353, "4e016c06102e920054b22d845defbb03", TRUE, "682ef76b5a46b4e3", "3820767e", "5bb2b0be3a3f5bb1c8d526b7681549f6" >>,
    << 1356, "1b3adac7555b0812bea73a25e180e842", TRUE, "6456caf320bdfee3", "54dc8401", "361f79b7bb593f589da8616c29d995b6" >>,
    << 1360, "b98cc5f26e42cadc467dd097242e7461", FALSE, "71d86cc07f737928", "56830cdf", "52c0ce19b3dc761feeb7337b553e3e46" >>,
    << 1364, "6d51f2b39c25259fb2e2c389f42f9ad6", FALSE, "f18b508d296f45", "e67a49ff", "d508d9e05fb7f2e2bf0fb1613a6d05f5" >>,
    << 1365, "2f100c290dc1879e3afb55d92fbd1af0", TRUE, "7d5319496ff7936a", "b23b62a1", "53fcc50ebd77ff93c2e4291ba0b43701" >>,
    << 1366, "8acbec9e2574932328a45f49dbe2d849", TRUE, "78633b12a77b10e8", "d53c6306", "b0dad5653fadb15c58f33cf0da673814" >>,
    << 1369, "14e331312c31c88639a4339cf3609347", FALSE, "7f74039d717792b9", "e07fa63c", "fb68b9e1db820829b7c8a0084a3d280e" >>,
    << 1370, "d01e4cac37eed560c0fe76135ee1b10b", FALSE, "6c1e0ec89bb3ade5", "215102c4", "ed509600f5dd4293398ac66a70516cb2" >>,
    << 1373, "e93cb3ed9dff3b5c0bb12afa05984f61", FALSE, "6fb1c0d5b775f262", "2a659f4b", "6fe9cea64d7512bb76804727aa235f42" >>,
    << 1374, "44d0659f0feeba74d0dcbf222435ef1d", FALSE, "37738373ea5a7ebc", "1fe0e134", "f579bbcbd1255faa60d378a0f8907dee" >>,
    << 1376, "4987cb85b584ff4ac7f30a427bd0816e", FALSE, "42d972233e8a58cc", "2bc0ffc7", "d57dd1de0ec7a707092365bb3f78d7c2" >>,
    << 1378, "8c18de16e48e6862a82f222a3c9f5b7c", TRUE, "49c96655a707afd6", "27d4f4e3", "23c691e2163e6ba5ce4d4d8f06775376" >>,
    << 1380, "3cb264400067797cde84a57bf4542ac7", FALSE, "39e3b7e3d5ec692f", "892f9722", "94f4566dd94c9e84df02156e2e95902d" >>,
    << 1383, "a81f399bcaaaca7c1a9bf7dc163531bc", TRUE, "220f71cd598630f8", "ad247a7d", "47764746786476b043bdbaf8d3694ef0" >>,
    << 1390, "6ab062a202b0c545c865f366642061de", FALSE, "254351539bdfb5a9", "718dd3f8", "324e2182d203c855883fc9c30cffa2a4" >>,
    << 1394, "69180e563bd9b09ea4c351b943923265", FALSE, "7c27d9a0976dee9a", "b626e65a", "7d0f6cf8217dc02d222a54674a5239e3" >>,
    << 1395, "f30240d4b492ccce95fbec3e13295377", FALSE, "3def1a00f96038bf", "ba1c85f0", "c9a83a7034874956070f648773e500d1" >>,
    << 1397, "8ff29e1b91bf9fb2fdcd7eddd36bf387", TRUE, "3d4626521098d4a7", "f6f32b0c", "32ba477951d7dc2c7e7edd6f5ecb4e3a" >>,
    << 1400, "2b21457a2e599237551eacf4ab1f8dd1", TRUE, "798d4c4c92d2f1ac", "4d349b83", "876653f03762e5d364ba28f37d623ea5" >>,
    << 1402, "74f833e8bcd4b24403a0f30b8bcb27ca", TRUE, "23f08aef8a44a47f", "a330f894", "c7d4b3970b1da0b0cc6b4ef54117b457" >>,
    << 1406, "be438acb0d60bb768490e9dc545068c2", TRUE, "525b98bec7356fef", "ed668b7e", "b967f591cbdd2804cf1cca89c1edeaee" >>,
    << 1408, "51a253b5a1e2ef5d4179f5dea566c165", TRUE, "1440142af31ae7bd", "2316ad6b", "2c1ccf19732ee9fd2d1320e02da94cee" >>,
    << 1412, "029807e297782254d18de40183c535fe", TRUE, "51c68a1df1a234f5", "6ca70640", "65d9dd3c521487c47c384cfe928a9913" >>,
    << 1413, "a74f6e5318360767445988b5197e64a8", TRUE, "c31170e0df26206", "8de1db40", "fb3d08ce717000b239a1144f6c9d4ad5" >>,
    << 1416, "6e6a592551bcc51d9b93af58ea0f4a15", FALSE, "129107cb261905ce", "47eef7fe", "aaf975426aa44c4894f36e4afdd98538" >>,
    << 1417, "5ed7978dd6122b24a9c155e5a8c1a83b", FALSE, "28540de1dcdf8fdb", "adff1c42", "589ce3a819628c40e8ca88114629c0d3" >>,
    << 1418, "f2094e64067dfb3330b8c5bd89369dac", FALSE, "162659aef2657879", "e4e8489d", "79fc7f8e3dd395e5a3d61f6d9ca3e8ed" >>,
    << 1419, "2ee17c150178a79f9759ae5cc17be786", FALSE, "5c6a168798f23d1b", "ddc6595e", "c1b0106a96b1a029dfb6bc43e3653a1e" >>,
    << 1421, "41e69645b53fd020dc5b4e23540a324f", FALSE, "2dadf5ef5b6a6ed4", "9e66ea8", "950bba0ccdcbcca8d67b2a31ccbb5557" >>,
    << 1423, "988ebb85ae254ecfb1e37e697543ff2c", FALSE, "75cd56b31c7dfb49", "e18de0bc", "41b15dab639cf4a4064ac166d1d15426" >>,
    << 1424, "5ef4276069317341f9120ff068927bf1", TRUE, "3e22126feb1463f3", "2e67222a", "2ce547ffbd0ebb63b2fd10bf64386718" >>,
    << 1429, "284ead0bbebb1ca4521353320739341b", TRUE, "7ee28d95e8b56430", "7cbdc8aa", "b20627a62e012150c8898d431c280b6a" >>,
    << 1430, "50c6cb11fd18968bf0dc02cc14c3356c", TRUE, "638a1ad42580021a", "241b84a0", "62964539d74b7914d130b536e6f3d24f" >>,
    << 1433, "d0a31e1bf6cb33f57f2f8166314f4566", FALSE, "277ed801a0a86272", "ccdea9e8", "707038aa11fad747298bb4e11e6aa26a" >>,
    << 1437, "ccd6d5750f01360d008c3fa04779dc78", TRUE, "638292baf121aa7d", "45f28647", "46be4f870fe39db1bb5b3d0b1eb79b69" >>,
    << 1438, "1e6e3cac7fc42812d996d58bc1272cbb", TRUE, "57af585636ceaaa", "bb909705", "2ade753edc644b1d797e09a648917a7d" >>,
    << 1440, "08a2ea99833d6999f7ab9738f76889d3", TRUE, "3834442ff2f31c9d", "4ea94a1e", "09e2f46c8cb57376b0a07db2dfb870e5" >>,
    << 1442, "0a8947c8b2ea8e9032fa378ed3d2d202", FALSE, "2c3e018475246f30", "8d0b3f25", "7c7c899a1c96af1740a46e32bb2869e0" >>,
    << 1443, "4c524f4b783af2afdbf6474b710f1a38", TRUE, "6f93a6ee7df986cd", "4db251cf", "64ae7a22f31a50a366e3e60805a9a394" >>,
    << 1445, "e747850b184fa15b21216c385d3a3d26", TRUE, "2749a2c6b89048e9", "ca501345", "ccffb821bbdeecb00b80362a031cc43e" >>,
    << 1447, "4488a85daf0e5cdde461d5b30e6aca9e", TRUE, "57ca9b0a85c9884d", "f25ce142", "9f1c7698a66acd82dd880d25fc53c895" >>,
    << 1449, "6e34d7c0f41a1e49e9338ba84db964cc", FALSE, "27f7c56e4657eb86", "9c4c8f75", "3ee98dd2bf4b495339de74fe31c0cfd8" >>,
    << 1450, "0e851d073be8995be6614a3f5c323d9d", FALSE, "1212dd28f463f6cf", "39730eb9", "563c171899cc2bfc8a685554c7959e9a" >>,
    << 1451, "1985ea0727ed7a5c86e1cfeff6eb0492", FALSE, "7b15aeaec28e5729", "f28abfa8", "be17dd3bb2d0c6188a9ea8773cb5f551" >>,
    << 1454, "bca08fb0b24b3ad1029ca47882a16d1f", TRUE, "378b1dd7acb2edc1", "e13f2167", "3f25af0ccb8500c89af804e119379a5b" >>,
    << 1460, "2a5146b355b6f7626c5511aa3f83a9bd", FALSE, "564954ff9098f2cd", "49acc385", "d51bf21cd5ec63f96123f2cdd73534b2" >>,
    << 1461, "ded157ae0e6a76fa5e3682b4e14f73b9", TRUE, "7db8e981a87b2e55", "169bb1a9", "ae70d57ac33fe055def0361fa3a43f9c" >>,
    << 1466, "76a47968b0fec02c5f92445719ddc127", TRUE, "192abdc598275010", "198a7a2f", "7eebdbede540e520eb6d211b46dfccd4" >>,
    << 1468, "7d59de857cd4a28d1a4ae32472df707f", FALSE, "39e7ef2fbd030621", "f879cdb3", "4727f6159297c712d6e1385ffd3ce70f" >>,
    << 1471, "96d2c1cb52ce03145bef33296554b2f8", FALSE, "596291c1c80bc5af", "1c5378c1", "8a0da3f944c74a26024134bf12453e85" >>,
    << 1474, "d8b9c6821b177b7078c7e30b14624f50", TRUE, "4a769b1461ea742a", "8fe2fddc", "9ace1a5d4eccd108b8e717aa4ea122b9" >>,
    << 1481, "905001df248280110ecc3f69a9ded1c8", FALSE, "79a06940e3377174", "95eeb066", "a2245c200315d1755fed6e3c71e57251" >>,
    << 1482, "693cb73edf66f86ff58f063fff18332b", FALSE, "6fd4e2127ade6fe2", "de3c5da4", "f22fad3f92667c70fe87587b48d61fb2" >>,
    << 1484, "43cda07feebc99a439f3718468f95a1b", FALSE, "6027cfdc0225aab9", "796741e", "42f34b6ba77c4b6566c4f21f1d1cd9e9" >>,
    << 1485, "7c281085cd694c46337426be8e48f196", TRUE, "16693fcdff7a95ad", "425b0334", "64be100875466079142d70858677bb4b" >>,
    << 1486, "aff7666950dcf896f008cc2183f958cf", FALSE, "28d1127a0a6b5b86", "73ceab53", "d65afeb964473d30fecdf0e2f999a274" >>,
    << 1490, "3c0be7cd90c7e37470fb34f87c972af0", FALSE, "47e21425049c534a", "b0290356", "7c9b4dd26791d5c38a5102cf35a53190" >>,
    << 1492, "77f5a39158ccb9ca672e1e66b1b3ba56", FALSE, "6730b8fbc35e1fda", "da2bb5e6", "537dea53c2a7e15987993013436fc33c" >>,
    << 1493, "a4f1504d5cc2b11ce711df482800d0d3", TRUE, "6859d5a97d76ebee", "adf12580", "2da2b60791b9027fd61fbffe0e33eddf" >>,
    << 1498, "7cf5c6cab4a440553c74fe7d3d0678b0", TRUE, "7fa9f2e051389c6b", "b87967c6", "5bb716ac2284363b37e73b85cb4b68c4" >>,
    << 1499, "5e91075aed31182b9b0632e1903495eb", FALSE, "5b144e7312213a71", "39770fd6", "aabd3e2e5bcbc4ac80c6d11fd0b154dc" >>,
    << 1502, "4bc1f657d8e126aaa9608c326def5814", FALSE, "c54d1db34d6ca16", "818c80f3", "97efb9c82607aab76aa843808eeba577" >>,
    << 1507, "86829306035255af9fb11f2317e79bf5", FALSE, "1201a96a1bbcdf45", "e6b89815", "3be46fe69d0a63e86dba2f731b3285d8" >>,
    << 1509, "56a6c96b3ef6e09e5831106c159d12e2", FALSE, "62150003914e4d26", "4fa925e1", "94f9f34598b7195b89175e4384cc8011" >>,
    << 1510, "800ed38c3e248438040df8a61a77e4b3", FALSE, "29d337933467b96c", "3cf43203", "626afc55c3d35e44af44786399c4f0f1" >>,
    << 1514, "42f5fee3fb9feb969be4a63868e9841f", TRUE, "3aad287dcdd1a360", "307dcf40", "561e4245b04ac9eb8b77162e704e5be4" >>,
    << 1516, "117b8b2018bcf27a3d9278d87c74fdd2", TRUE, "62d94da86d23051", "6b141203", "99778b4d0edaf25de71038a9e5b54ff3" >>,
    << 1524, "4a12e95edcf147781427ee2813e17acf", FALSE, "510b19dd90fbd8f0", "d2a0638e", "cd5bd6eb704449c9828f86b4741d79e4" >>,
    << 1527, "5f2c4b5a9b7bb4b30b7331639a69ca30", TRUE, "27460522d4c8f0b5", "69f28a8d", "1b09df33b8b1df98cfbdaac8e0c53c91" >>,
    << 1529, "9e90df61641f429cfe156e4a92683cef", FALSE, "45e5c70350e21d4d", "1777b904", "2f75739ee36f586528ff18f6ec71abf4" >>,
    << 1536, "75d664056e0aa683afbb54ed3e79c87a", FALSE, "1f0ca5d13b3e30b5", "a0f8fe35", "8bb49a590f0fa0d7bd2e5f42db99b9f6" >>,
    << 1540, "bf1f16b6a988d13b808c81198f6dc9a6", FALSE, "5f5d76fbbf34f188", "d2ed49ba", "94702fe79c037a7825439ed64d2d623f" >>,
    << 1543, "65b7f22ed7a24ee020213f668d1eb38b", FALSE, "44db6a230de68e44", "e59b8f5e", "9bcaf0196997d7f5418a5ec45b4772cb" >>,
    << 1545, "69d44ce26bd2c4f721b95ad16ec0c165", FALSE, "3a656ad67e2de5e7", "363b47f7", "7651263cc03059dfc77f03abc7a3ef80" >>,
    << 1548, "7f17b0c94bbebab2486c3c0d80accf15", TRUE, "38443855ac95eada", "9f16e094", "60e107e91b70831686107adc950dd3ed" >>,
    << 1549, "76ff8b6219192463d2d5cabd6e7eebfc", FALSE, "68e7dd694bf363a8", "98bda2b4", "be98c0e33a0d4496d78ad90458efecb8" >>,
    << 1551, "89173da2be6b607b4e265b567bde73ae", FALSE, "51abd5ea25b6b259", "c92197a4", "bf22215c17c85f48a055e70e62c613f1" >>,
    << 1556, "c60c5277c84922d86eccf4712cc68228", TRUE, "2ed4f9b9cbe3523a", "ace5bd8", "c8929359b972d4cfeef15b3993c6512a" >>,
    << 1557, "20cb88dfbfc283f056cd6cc563805028", TRUE, "c093c0f6498b0ca", "9e6ff32f", "227a43a0d9ed5829ba8464f8d52314e2" >>,
    << 1559, "6d75cd1ad39301988c73ee633c32b3cc", FALSE, "2eb522bde62aade0", "b90b5bf", "30ee69afc2939706209dfeb421054e92" >>,
    << 1561, "fef84fe5d04aa201c87ffbf7d48abb00", FALSE, "7e4829dc20dda91e", "23c37e51", "cc9fae1eb021935af261b8551941fc14" >>,
    << 1563, "ebcaeca1bfefa34986b96e3b36be7bb9", TRUE, "288e25f9bd18ae4a", "66afeff7", "f012ce5a43e32bfb47e0590e460b8833" >>,
    << 1565, "2654b1777df31f242478d69a08c5f86b", TRUE, "70934359756ae118", "53886a46", "bf3ae5ca0bb81f9dd9aeb5ec0f22af6a" >>,
    << 1571, "88a9858301a61089388d5217352bf4cb", FALSE, "3b8b293697bf4c57", "67f3965d", "7dc6df51a9c48e1bf127c788a7979c1d" >>,
    << 1572, "48451056c4e641b8655aa78f7cd1bde2", TRUE, "126718caae85ad50", "1661b05d", "0e9c35b1bfc83163a099ed16e51d996d" >>,
    << 1577, "496f86103ddcc51799a35bcc9d2868bb", FALSE, "57ceeb0d24b30cb3", "20a3c8c4", "9ccd8e2b51c6e774674036cd7edf9f6b" >>,
    << 1579, "46322bf04f6f9192d9b61f13225b3405", TRUE, "6177fd91499c6ba", "7b35b445", "f147336326329c19ebb5ab18616ff1fa" >>,
    << 1583, "9fd79aa46f8d2ac70bdf74056df5fde6", FALSE, "761364b61a7f933d", "129d171a", "0f3d0229461c639bf01ffdd3751211cb" >>,
    << 1584, "2256cc61d689f41f329cd2b1312ad2b9", FALSE, "423530cd53ed96b3", "9c5885ac", "edae41b96894c6927bfcb0fe4471a791" >>,
    << 1586, "ab8197e98e17e5019c4695a6b2d31b1e", FALSE, "64b82e07aa03c066", "aa32b101", "fb4905486ca1864b0a3433b0e5129d22" >>,
    << 1592, "843ffc7e7b5e9ee4dac747586211a624", FALSE, "561d810fbd0d9a0d", "dbf03180", "f14a1d34c2023bfb2092dd139bb15dca" >>,
    << 1596, "dc3415a27e82f58926701d521df8ddef", TRUE, "72f0f660ca92f78b", "48107b03", "f15f69e06cae4afe3c0d04a8c8f17d6b" >>,
    << 1597, "771dff601030a3e1d54352a7a5912a75", FALSE, "c699a944cfa60c6", "71956cff", "1ae579b1cc5f7b589ccaa8b14e61af25" >>,
    << 1600, "60507257cb934e53e92fb2036cbd5407", TRUE, "31148c775ee9121a", "51a8e4ab", "c9ad56824ab11d7d5e2cd6462001fab6" >>,
    << 1601, "fd80f5003912e294bccfed8883cc1256", TRUE, "20b7dcb45d1d6c12", "4fa7a583", "601df7597155d6b4c5ddd1b6dde93cab" >>,
    << 1604, "18269d945d039cd0590ac86fa5d72cf6", TRUE, "4ae41b12229f15b2", "de4077", "9dbce2ec39042a5586dac83cd40f47b5" >>,
    << 1606, "58844702ef2cac61567f198580dbc016", TRUE, "62ae7bbef4c69b14", "f4ba912e", "bc70dbbf2cae4f4986cb5dddfa61e2c3" >>,
    << 1607, "42e3b9c5b6813bf28a9af2261f0a9278", TRUE, "5bccaa2c04fc09ce", "aad2f5fd", "9636aa0734d34cf5d7bf0d1faaee5908" >>,
    << 1618, "8f663f6e068b0e8fd611f6862d08e29a", TRUE, "75179497aadb04d", "f95c3026", "72aeafe4b7082538e4947d959124784f" >>,
    << 1626, "f72b3c023e2b39e869791fb7eff57517", FALSE, "a5ad0b35adbae0c", "689f16db", "d2d2b61f68e8a68524bbbb71d04d0a9f" >>,
    << 1629, "44b0d77671c6ae77064a27122c60da15", FALSE, "270d1491f2b7bf2a", "2a16a1cf", "f1cb0573934c047ce2db6d12de46ef74" >>,
    << 1631, "27aee081e9918562043d87c1f5e6f775", FALSE, "16db64886dfc595f", "aa1d827a", "4cc9c68f60c67dbd9941b9baf623e72e" >>,
    << 1636, "6d87ec31ef860af5a84d79812f6a9654", TRUE, "9f16ddde045a921", "860b61bc", "1814892c661b42ac65cdeb96180d81bc" >>,
    << 1644, "ded0f29fded4c997af29263038848c6c", TRUE, "1991786c2053f8c1", "d81a6ba6", "c93a9641fab91f097ce0ae837fb472b5" >>,
    << 1647, "3fff799035f77c59e80711b2663b0c98", FALSE, "27dbce5d2176bf18", "a2d05063", "84e5a75da0f8bf3aedd9267d807365b4" >>,
    << 1649, "ac7a3499d07552f1f8ca61f5b22e91d2", FALSE, "38153cc032d910be", "6c54311d", "30f35d5ebc2e819d0ad5f604932b3da8" >>,
    << 1655, "42b6790a81d8b1916bc2d950482b2a80", TRUE, "1762b0be6345b8bc", "b73935ca", "3677d6e4b015256d2997336a84728c68" >>,
    << 1656, "0c71226e91c577da28f7ef192f6724ee", TRUE, "7f2ed6284ad4d326", "e5dc0c9c", "855f97299d180a4bab934643b8c723a5" >>,
    << 1661, "25838878f3f93c45cd66bbac666b8b1c", TRUE, "d66a4dadc0220c5", "b2f4cf", "97378b7a9223d2ace0809ca0fbd3ce09" >>,
    << 1665, "357ee37dc9b54a4c73f68f6a041ecbfb", FALSE, "2996b39ad191ffa9", "4d635cfc", "922575a47955c33f288e2d2d6b33d7b0" >>,
    << 1666, "4a8a3cb6c0e3c1b4e21c7ed7204e2914", FALSE, "5f4c8324121d867b", "db628238", "f11d7ebf5bfa33e77f393eedfccaa7c3" >>,
    << 1672, "0a545d5e39fba1262cfa30e25e77597d", TRUE, "6ac9d97682fce28c", "95adb328", "c9af29cb0fba2231d02651ae80d2ee8d" >>,
    << 1675, "ad9e69c3a06eae0bfebb44a21c07fc2f", TRUE, "3aae18ad78944862", "79d82cdf", "ad29bc51373e528a0afb1dc07f6a594b" >>,
    << 1677, "4b71965eb59812c90fe988540c6dcfba", TRUE, "7ee301e82f555fc3", "2bff8075", "04ec486c2e1fb5e835f9fd476fd1413a" >>,
    << 1681, "4c924b7d53fa520f60c99cfd8f876555", TRUE, "3da03192c800f890", "75272870", "63ca00a14b1e283a420e58a35c874831" >>,
    << 1683, "f7b3026b80e67fe39f22b23cf30b364b", FALSE, "664ea3ba8fe84a6b", "6bb8c6ae", "57ccd4a131db38e23b5ad582066b7f9d" >>,
    << 1685, "4d6ad0f64839a98e4847c42c5ad0fb6c", TRUE, "1a34e27f742a63fd", "cb975f51", "821daa843eb4dce5792409b44230ede7" >>,
    << 1686, "a36b2606f93f6f70010ed4c5fb52085f", FALSE, "538ddb97baa972e6", "5270fa5", "4aa34b72d51093ca26665f02845db024" >>,
    << 1693, "dec0ca4cc20247ba95f7615652cdb936", TRUE, "17ce6b4b200164c8", "83d60777", "1f92a1df0c18112889d14269ac44ceaf" >>,
    << 1704, "12b6f62b7b3512764a43279bee91f05f", FALSE, "438660c87f1a4210", "e1e92309", "39440c1bd2da94f27e9b899ac3a9b0de" >>,
    << 1709, "8443885716a9f61f9b7882c13da8e4be", FALSE, "6c572c1eb2375234", "4460f409", "f76a69c2d48e6037bf0b71b5d3d79e0c" >>,
    << 1714, "5e332310f61ee164a677228d05dfddf1", TRUE, "6af2b2cb80acc92f", "b94b0a8f", "7ccfbc38503dd78263cb9608e175d46f" >>,
    << 1716, "0f45787f8183e1ddeb527b4c0610306e", TRUE, "5e6806e890c13fdd", "f6f06a5f", "3e9132d8ae2fc2905865c3caa2583ca2" >>,
    << 1718, "67be20177ced3b84f48477aed1319013", TRUE, "68e54af548dad654", "9dd5c28", "70a029097aa58e30a309caffd6963e7b" >>,
    << 1723, "dd706e9e83b9407a6f044910b112047e", FALSE, "18ea5597915eeeef", "f5b3e83b", "545d9fa7b5b7e7da8e94c6a076323821" >>,
    << 1726, "352678611cac0bd6b134799bd510d50a", TRUE, "14dd0afc16f5696d", "a7f06043", "6414011e3d084cf28b3d162b4338c360" >>,
    << 1729, "c7087c24ae56159a3b004aad885be270", FALSE, "26e1a555a2a75c06", "dd04c2a", "b4bc9a3a49677685f7c142fad2d6f07b" >>,
    << 1731, "53941db04c48647ebda1cc3f71b5e5b4", TRUE, "736c97557b94f00b", "b125b4f9", "66ede8bd6e6b546d5ba44305cc5a9c80" >>,
    << 1732, "d648e0ff4277186ac4a9ceb5a535517b", FALSE, "77903026bea8ea22", "64036665", "2fc8ccc0547050f6aea1a9cf5324299b" >>,
    << 1738, "9fc4f99fe815b8bd3ed35d4113d99053", FALSE, "485576dbd73deda", "c23a03f3", "f67b24d34c82c573d944d40ffe2c23a5" >>,
    << 1742, "1f1da982af843cb7b18004ed0410b614", TRUE, "1a34c9d92833aed1", "a43f88e", "2b566b41eb455d3919615c4e129f0f57" >>,
    << 1745, "ced2352a9f239d505ce0e017b516f05c", FALSE, "2dd69001b915ee10", "5503eb7", "618f91a10477426922a597695368732d" >>,
    << 1750, "be7e7b0d44ab7e3c1b0827efd70f5d81", FALSE, "ef92dc149e8022c", "96b3b560", "b3f81fe70934dce8d9c8c50bf3fc6ad6" >>,
    << 1752, "f15c2388f58bb75d4b5bd0d14bc6615e", TRUE, "7448572885bace5e", "1f8f1e2", "f0d9d41fedba4e0ee992dd63cda9d38e" >>,
    << 1757, "c73ba64fdc9f803218b4d5459e34cc04", FALSE, "af2022c189d411a", "a85e871a", "8d1d276a2d633137b12fb589d01d8cdb" >>,
    << 1758, "84f9f06b6d2f60064499dcc0242c2634", TRUE, "1898327ccf3c812", "5efc50ce", "9d2cd02ae682cb51569a7d542297defd" >>,
    << 1760, "dc3f487ad532b1ca327e4a82e2c2309b", FALSE, "7e441fa5bf3db919", "1879f44d", "b68a43e3519477f048db57e2d29636a3" >>,
    << 1761, "7b0ebff8b2ce1518519d6eba8f875563", TRUE, "5a40229d54d951b1", "c4684246", "80c5d6e8760306b28114c5cea0a569f1" >>,
    << 1762, "0d474a8a50224085329f408701187565", TRUE, "2256622c920a3e14", "e8b1460a", "c058fbc51cdfb446fb4f37f7f09f3a60" >>,
    << 1764, "73dffe6c3f566097966a225b70810591", TRUE, "c02c2cf2a1a29d4", "9bd3f51a", "9c5d4346559c5af7d26329f65d54279a" >>,
    << 1767, "43a296b2aeb1cf82c78a48ddac9aac36", TRUE, "6f812c556c0671d", "bcc40af5", "ae24ddcbfdc6460644d42f6aa4ec3a2e" >>,
    << 1770, "db8d449e567dc98a85325cd27d1d99a6", FALSE, "24ac8c2124131a56", "45f1bc79", "1d1b72de4e8c9d807f33dbff99706b2b" >>,
    << 1771, "cb71f5b6c14404a45cc7fdbe88c4aaaa", TRUE, "6ffb10f741f70d86", "744fa955", "c34e59fc2b39ab9e405ffa085526d9ab" >>,
    << 1772, "e0b03cc215c00c4b57fa3cfdcbc3ded7", FALSE, "1016fb5e907465a", "ef073452", "220eb7f3c1727948e1c24f40c2e4f9e3" >>,
    << 1773, "d5bcccf3a4289c79987f6ef8b0b30171", TRUE, "b3e6c5995761569", "dcd3d426", "d58160f4eea549aa2350c23bbe4fc360" >>,
    << 1775, "035b4ebe228cefe27ac03c64517bec50", TRUE, "7227a4e575ec6ff8", "d75bd58b", "5947b9a2bc9c1562cd073f9030723581" >>,
    << 1777, "215eff4f2a338f2ad3a190b98298dbc1", FALSE, "1d765c221ce43f55", "56c600cc", "92d944105639b0816b374c1531a69be4" >>,
    << 1778, "f186235f07532c7810cb43ffa0da78b9", TRUE, "52fbc41e31429ae", "7b0ab67e", "e1df03ae6f1c73e4a49d9ad08f59feae" >>,
    << 1779, "6bf165d3eacd8a1a1adb285883b3bc18", TRUE, "7f5f9d823f317c20", "850e02bb", "88947d6e5e2c730aa26172ef9aa579aa" >>,
    << 1782, "554d688ad5d2a89ef99f515b7389e52a", FALSE, "75887bcf66fa8903", "cc1e20c0", "0a61da5dd63a64b0622da92b1813035e" >>,
    << 1784, "9628eeb1cecf67c1d52f130495523fe5", TRUE, "4c99d5887b7ef821", "69e076ba", "9f3403ab2216fea913cdc38b9377e272" >>,
    << 1786, "1337cd530c1620fb68212f7987a89b7e", FALSE, "609e9360295c3ecc", "8758192c", "c25399ce111a46b42bed8fb099b42eeb" >>,
    << 1788, "56a283b22ee93a8dcb95363e350d4aa1", FALSE, "1ba1be3c7c73c64d", "36cb0e80", "833e510ba119e90a803b71a4bda31430" >>,
    << 1793, "0f002c819ed540d11e0b1c514d613a31", FALSE, "16c93df311105588", "fb956748", "26068ce5efc9f5fa1027bc0b8154eb9a" >>,
    << 1794, "3849ac06a2a2db59d97b435269200164", FALSE, "5823e7fe8d51eafc", "1450e5c3", "f93ba05497748a47fe2ecae21819a636" >>,
    << 1795, "c5bda3b548ce78785266474d7c8d2f4c", TRUE, "237dac23d4bf0331", "3af19f32", "fe2c138055ccde87af490fb8e7bf884b" >>,
    << 1801, "f63203195be7a4936c8a070aefc656ee", TRUE, "2c3dfc0225910d99", "9a5430f7", "f69c43a01f4c82b97d23727836077abf" >>,
    << 1803, "c5edd354b792bfc46a4e7bdf180b019f", TRUE, "682241e2a716759b", "7b15459e", "0ea913dfca57a742e06ff5591b50b637" >>,
    << 1804, "ce04cdc540839d423fbf0598baefb860", TRUE, "2a02cb12e9c9a923", "3ed82ba7", "07cd679be84549be0935461a8217b0de" >>,
    << 1808, "b7a86b37264297619055e5d59fa53870", FALSE, "7825b5577ded9452", "c10aca05", "421d6b5ac7e712e9252c4d911543a06a" >>,
    << 1810, "3028c91ed12cb78dfb437fb63f81288d", TRUE, "19e93812237aed9f", "fb28a44d", "d910174ca86fba6f3f2e00ce806bbb0b" >>,
    << 1811, "2ca3e772538257fdeee685b06993e44c", FALSE, "124cd73090cffe9d", "c9a13b3", "a70b4e7b26b406f36442f72dbcfce503" >>,
    << 1821, "4511c96729c3c846a917f3df92b5ceed", FALSE, "cd82342781e579e", "ca8eab89", "f1f897522c969e1e3b537f176aa344b3" >>,
    << 1822, "dbfa793c432b3aa0b5729330f8413972", FALSE, "3e35be154e4eed77", "a23114eb", "b8041770360bdf87d79cd49b46982baf" >>,
    << 1826, "6576b9e0e5a5ffef56ced6d55105b33f", FALSE, "7ab5a750ceade593", "bc261dc0", "8ef588571c0857e49714db38f0e3ecad" >>,
    << 1829, "0001970541a9884619cf233f7b42ca0a", TRUE, "3983d89819c7a3e5", "45a71444", "e10e6c2eb66c10aacc4903cfb02ba0dd" >>,
    << 1832, "8796cab637d7ac4b64aedf9bda8163c3", TRUE, "b48340ab5c51c5d", "f325513f", "99f443b7a00770b59243e76297e25c40" >>,
    << 1833, "4ee21e921ec87d6671190fe8a73fa291", TRUE, "6c89ea1a155dd50f", "f0af908c", "7ca353f984c68fa83e1a6cdbdb6197b5" >>,
    << 1835, "22b5f65920c0a20576dd49adcb084d74", FALSE, "41835f30888d1310", "5cd003d9", "75d9bed884cb187d5cb44ca73069cf0c" >>,
    << 1837, "0dd6fdbbee69589dac805c46a0887239", TRUE, "32a9ab4cfd823916", "f1ef58d5", "11c209de05a701b4c5318a3fdbd74256" >>,
    << 1841, "84886c3e1f2b12d945576a0c93a56e80", TRUE, "783e0e56c31cc9e2", "ec2392a9", "45b260db13cf2226b75bcdbdce1ae17f" >>,
    << 1845, "61eae2d2529fe8f8a0f59b94ce7243a8", TRUE, "12e499cefa3113af", "a2020bbe", "0f2673651922f64008350a38834708bf" >>,
    << 1846, "c152058b31d19ce6175aca97732e94c7", TRUE, "150acd083aec9e0c", "75afc56a", "c4349e4889da226e28e057ec92ba3285" >>,
    << 1850, "c62d55090daa4ae1e815f8fcc4864975", FALSE, "1177035a76f36198", "3cfc3365", "23ef0b5dfb6137e68aa2e47286a3b313" >>,
    << 1854, "f9bc392b3cc36cac475b6d054e6f9438", TRUE, "1a051f75946abab1", "7c600bf7", "0a57ae07c69c78fd459efe738e04c64c" >>,
    << 1855, "2a2890523e2dad2addec5d3e5df1ad5b", TRUE, "1f910535199a5c3e", "2d09a09d", "71f6bcf906635801e39b786e6b4bc182" >>,
    << 1856, "135eb54f270496eb59b3b40ad20f91b9", FALSE, "131b37465b0162be", "bc791d11", "9804f05b5fd8541eaac93eb783b044a3" >>,
    << 1857, "d1e314ad7a7a94b5137b63e70f5054fe", TRUE, "66af82723ac70408", "3ac9e16c", "58343e5ce0949853886ad9edc2e82ded" >>,
    << 1864, "c5237df3bd0ee20af1400d6d84c93065", TRUE, "7fbcffe9bdd34090", "ce9e3a6a", "ce9182abcb74a29f20c1362e271dbff8" >>,
    << 1865, "163c4764fe58b21eba659aa5214cd15f", TRUE, "7e5b18e86febdd64", "f2967772", "d4002ba8a8bade45aae237c845cdc1ac" >>,
    << 1873, "0ad74fed1c0443d6c5b66d7eda115504", TRUE, "74679c1d12d46dc6", "daf4a3fc", "1af782c8f810eadbe8abc80e8c1c8ef2" >>,
    << 1879, "eea1855b208f67ca326e0d2465fe26db", TRUE, "6003d4620c87c29b", "2ee45151", "c5aa8745e9545f68a0c8691c1c602890" >>,
    << 1882, "a12a70b93231d4e58c4c0323067a2af9", TRUE, "25fa2982e6f34e0", "7a2ef235", "8ef070efe99e5a8ad388b9dc3cd01588" >>,
    << 1885, "bc2089f6f7a5b2d8f595798c9c2caccd", FALSE, "5570c78ac222a12d", "a4c211fe", "909a21c832f8756c22012b751aa9f028" >>,
    << 1892, "0fd4555fc9f35347ef4badaf9afb8168", TRUE, "2566a49fff559ba4", "2e7b09fe", "062c6c80a00e830fbb053a96559ab22d" >>,
    << 1907, "a8c9ee8740e33f29d70de5173dbb2738", FALSE, "6930b646c26d4776", "75a189ee", "617ce98c0eeec45ab3893ef802f75be0" >>,
    << 1909, "40ef7150dced258d3629900abfb46a25", FALSE, "6e82c52fb2289311", "3b6f39f4", "0c3f5c4e2857a1d44feb29a398c7d8ce" >>,
    << 1912, "27042959f0caf5c183b2d1a009b3190f", TRUE, "1aec2064aed448eb", "1a5ff307", "856ba98b3f367b6805d94beb85c66d74" >>,
    << 1913, "eaff86f1f0ca0502b720e5e8348116e7", FALSE, "2811adf9ed609bd9", "88c0abc1", "93f4e507d893043ff4d809c863230adf" >>,
    << 1922, "3a388b09dc9129eb33fd42be204c2cd8", TRUE, "47018cb8a4b72a0b", "4f3b23f7", "7c481ec907d4be6184df6ab2cf0b18bd" >>,
    << 1923, "660c7910cf472de5d3455a6ae52d3ae5", TRUE, "c76fe69672bfaa", "72303558", "2b68ac8a7c5b62a31f8dea6e189892a6" >>,
    << 1927, "3a50fd8727015c1a5f9fb594fc5f9a44", FALSE, "620efdacad0dd45", "3b6cd2b6", "9e73517fb56bd5a240551f1e5f20a192" >>,
    << 1931, "f002ef88714050020ee86bdbd6426b21", TRUE, "79bb033318552b38", "dfca54d4", "5f9ec420d209b9b78b1a2aba85487387" >>,
    << 1937, "055e42ab8e000c7f9f0f67b731423e31", TRUE, "28821c5f6d0b71d1", "f0269406", "8af4eda26c15812e5cac468b8d4ac15d" >>,
    << 1941, "f7b9fcc8a0bb413efaab3864ace294ba", FALSE, "56aaa47b495cdb91", "d495bda6", "bc466056ffa53fec4720b63256f11ea5" >>,
    << 1945, "d721746744c07a3766f08a322a8b2226", TRUE, "d4b1259e34dcd68", "3d2861c4", "01e39cd18f950c8243ef3ee013067844" >>,
    << 1946, "7ee589888ada1a5d22b1b2f754198927", TRUE, "49f7ec00a346dbd", "3248abe9", "099cf9abc01b064a690cba4df136b93c" >>,
    << 1947, "3756232ec9c39ce65491bf906fb8bd5c", TRUE, "69ceb80808ba4254", "ba4ac261", "daa81493c17c070239ec2890f7203bdc" >>,
    << 1948, "56fe800381b99c272285e3824214bd55", FALSE, "130e8b41df358ab7", "7c798690", "72dd93ac8f9f7c3470c3b62d25ad5241" >>,
    << 1954, "de68b82ea44b28aadbf6f5fd48e6c278", FALSE, "267c7f4526d8e0f", "3549463c", "e1c4e05d1e2adaca05bb74e3f986993e" >>,
    << 1959, "082379b6627f98b43effb86e29df0a81", TRUE, "1765cd88e8ee87e5", "68453d9e", "1a9f5b65b2ea8054ecb4df9b13aa2073" >>,
    << 1962, "67a373933f597663d6a8ef465905d0df", TRUE, "23f0392de676ca18", "83266f9c", "4a9b3986aadf68ddab483faeb18f7ff5" >>,
    << 1964, "649b35b9e348b4eafb98c5e62a9711a8", FALSE, "89a5e267167d250", "d38a76d9", "4f88da2158490d6115a158412f9f8702" >>,
    << 1965, "41c05c4609861134db3ecfa9dd4a7504", FALSE, "459d764b84b54cd6", "6d1b94a1", "fe40569f183f7462607a2c9cbbc6e5e7" >>,
    << 1973, "367abd6a503f738f5ccf6ed69148e498", TRUE, "28c8bbe4f13ab768", "c3275485", "aaa70332180dad3058dccaa528f78db9" >>,
    << 1974, "70379e0f6c55699b1d71bb1aa4525f41", FALSE, "32fbeb4dc64e40c0", "6a463010", "f1f26cab14454fe80a2dd0c726d45adb" >>,
    << 1975, "58e6935d888f9f33728d917c2ea17c75", TRUE, "25c68ea402354995", "82eef007", "a10af8ceec1785035d9177d77777e50b" >>,
    << 1976, "e4cdae3cc2445d4c679ae86504a57ead", FALSE, "36f95c6a1430220c", "5f90cbad", "d6fa99951f0ab5821f60e6ab25cf6ea9" >>,
    << 1978, "72f57b8f548a143cca8e382a6c13f928", TRUE, "6d5734c4e393346d", "36702ad4", "380b16f5ebcccbf7a769fa51731ce7a7" >>,
    << 1981, "f9b999a3b89ce30bb0e56a0cf0214911", FALSE, "69e92c9927c57dd1", "272561a9", "40caf6fce094f44a8e69d518dc8418d1" >>,
    << 1985, "34ea26082cd1249def3e69dce8767a1e", FALSE, "481d6ea7856f4cf0", "c16edd76", "6c51bb785c840ef88e85709758e60c2a" >>,
    << 1986, "5e986770086e0e7770a6697dd7d8bf85", FALSE, "4590b329463a2bb6", "aefc5dc2", "3be49c5a4d4a042716979350e58974e8" >>,
    << 1990, "e5a28275f469e0b5a4afc3a95a9db0e9", FALSE, "215d7b3bb6a51fc1", "919001a3", "a78d462ad90026929c3f3a4525749da7" >>,
    << 1991, "4189bbb8fe7c267a0eec1b71b17b4ca1", TRUE, "752fd3c53affad8e", "ad30d844", "e9f0a6f400c3c4df716f81ead1d787d9" >>,
    << 1992, "fdd9c0e97f2eafc9b322df2ac58dc24f", FALSE, "295394f7788d8a04", "aff15b16", "9cda8933f5c9e6f41aebec122301e226" >>,
    << 1999, "7f14ada1fe4c71b6d04ca83c3aa82de2", TRUE, "7ea6293d88b70cf6", "bf3c085f", "a9e67500b1a455791138a62a71d57077" >>,
    << 2003, "b7a455ace9255111ede8834b97231116", TRUE, "7dce14e3087dd35f", "f90530af", "20912228c8a3ec7c8d577b802f8790c5" >>,
    << 2004, "1f081e3ead2d2bf800254305f39ae97a", FALSE, "4861ced2f5cae29b", "5b988444", "b345c16c328dbde41ae434cd71c8aa11" >>,
    << 2007, "828415b3eb4f7eec84b1b45a34bb2cc5", TRUE, "613d8962ddd941ec", "856e4339", "a9e1f48be891750ac88bfc1d3a7d6d7f" >>,
    << 2008, "4747fa6671b050151350125646416f69", TRUE, "47b620067657e4f0", "1e64cf99", "7deda896f7ccc553161162fe39843eea" >>,
    << 2012, "f4abaee1f465c53c7352bd897806890c", FALSE, "2a9affcbbda79cf", "b3db294d", "a7533c91ef0a1278fbd1aae18a15ce40" >>,
    << 2014, "4274c315ac42432a94c1ea063eb4a79b", TRUE, "3f1110c3248de935", "b9ee38a", "2684c65de35ceca071ec824a658a763b" >>,
    << 2019, "3780b3948295a3f8f95819895900f2b6", FALSE, "52de7651b67ba4fa", "9cdfae34", "33bf5f1966c604041a051665fa0d240c" >>,
    << 2020, "8150d2ab039f1f410c9fd6027e736c34", FALSE, "29d3b98943b517b9", "c8374957", "f3376aa2e2f3464e3a217292adc0a4ce" >>,
    << 2022, "b39e4807d2f7da52330c2a7fa430d781", TRUE, "4305721ac3b5ad5e", "b146eb6c", "20e9c5ffec90fbd5b6959ebbabb2cc59" >>,
    << 2031, "95e7cedaf3346c28a32425a574ee2af1", TRUE, "6ce5837b4ff2aea3", "d0cade1e", "7eed5946138781d99d8da750d304ad07" >>,
    << 2037, "d783e34c12996595e49155113dbcc820", FALSE, "2d191e64b10af285", "13e6bcdb", "2d63cf6410aed98b31bf73b1930a8b00" >>,
    << 2038, "834b858dd951ef17a5ae6e27feccde66", FALSE, "40160ddeb7c6d759", "e1cbae86", "993dd93b903890e12fd45a891b83516c" >>,
    << 2041, "7cb82d921f834596d8e3702b47a12ce3", FALSE, "7c14bfa84cbb9dfa", "d1deda60", "0816a7480a39b0d6c997ca6ae9efaf35" >>,
    << 2042, "1039c04d8ad55f0081f436fdc9a30219", FALSE, "23e1808fff668b6c", "48c3b477", "fd8ece1236634b0353d26daa29f78aa9" >>,
    << 2044, "0b8c40dd70e27c8f442706119a765494", FALSE, "5fdc9d616dd32a2e", "7e0aa129", "9dc6be31713d9825d49ca7545c92dc8e" >>,
    << 2055, "913c0b059abad7b03bc9e2e44496dd6f", TRUE, "3c3b19fcdfc2751e", "f5daad55", "5d343e60c52ed1580a3aa3d7b34a62c0" >>,
    << 2056, "8e1eda6ea87a5579acab07ffd51e8b60", FALSE, "4b0272d0154278b4", "32e29026", "b40b733ef40e66c91671d2983d9063ce" >>,
    << 2058, "8eaca97f5dbb3828a6c599e7e8b7879b", TRUE, "3ae5b30c87039d76", "2c342510", "9fdad66befd1925bf58b85fa9c05fc9b" >>,
    << 2060, "4a072c9f80cff4963fcb96633c4b64d2", FALSE, "4a348d9fa163f58", "f80f7bcc", "8bc57609662a029b6043c037fc1d8d43" >>,
    << 2062, "acd36825afa6068ae8c73e0eec115089", FALSE, "19f48fbe213b6535", "4f4f1740", "f66d08b5be5788bbf481c880c097eacd" >>,
    << 2063, "e67fa2f54e341a6922ad7ff340a7c2b2", TRUE, "34484cfbfc090ffe", "9b39a5ce", "1610598276ee4b911aeaa55e6b44efa5" >>,
    << 2067, "2eabb03de7bf3fcf2f78c2872b238936", FALSE, "1974cd3077fdc4a8", "e411dc32", "0ad9d9d5944280b047305dd57f687ee6" >>,
    << 2069, "f600a3b4436ead244b7da1309eb49c80", TRUE, "1431cf903c363b0d", "e8e1c665", "9e65296c00778980d2beea94bbc12176" >>,
    << 2070, "ba2c98511639b98252c66b83e0d4983e", TRUE, "6afd20dc2cdc6c0", "da094b81", "c9ca0945702e965467dd8c4d2547640f" >>,
    << 2075, "758b51fd60e6d17cf81514f3c5e8110c", TRUE, "7c9cb482cd7d2646", "e44dfad7", "220c60aee57d1f02517b1dec6c5e1cdc" >>,
    << 2076, "9237e5036386fce150ca01a039697f25", TRUE, "dedb3c70761845b", "a8ac60c6", "7ab77f7ff0c236efc19496810f288227" >>,
    << 2077, "ff25dc837d03e33fdeb5ce44e891e542", TRUE, "631e912bd637d112", "9ebf4a95", "2daba759450f4d45df2f502267deed2e" >>,
    << 2080, "0fa91f5d9c36beddb7854c0e8237c39f", TRUE, "2b8631578a083a9b", "826ef818", "04751ee35f6be4f4a8a92f35b1c4154e" >>,
    << 2083, "e42123e299461f1cbed4e9d00ee7b505", FALSE, "680285a6eebe5f71", "a6234cbc", "851f3190646b15d1ca10f806b0569cbe" >>,
    << 2086, "9426cb2d6bf3ca67c6d1d8fe572efa2c", TRUE, "38dba83056e460b7", "e4501b03", "6d79d023a1e46574c1f150fc0be17a49" >>,
    << 2087, "a43288a997149b7f3d65620ee5117d1f", FALSE, "4e62fdb1d66af58", "94b776f5", "a993036527605b6974786e0f3d312d12" >>,
    << 2092, "c9a6304d5161b51c6fe4c107f67211ca", FALSE, "b530fcd000ed1b9", "ad8abf6c", "e2c00907efed4153673512063f9aed08" >>,
    << 2093, "496f9844ac9bc6e75e64f6f42ac92314", TRUE, "9f4e8ea09c163d3", "cf887bf2", "46081bb41e629479050c40c9ca6e7397" >>,
    << 2099, "bcf0f395f0ac38933d51c7a2c947c72d", FALSE, "3ef15f178e3f4b1d", "e48dfa0", "e84ef510f0eff33d3941eefce9aedd15" >>,
    << 2100, "4e45a540b731f6baa8bba28b574db459", TRUE, "56d7889d9c3d28c8", "c0bd4117", "b627e827f2ca1df96278fc963547cc32" >>,
    << 2101, "49b97083dbcdcea92124b34b6d020589", TRUE, "104b035b192a9706", "5a84e624", "19cbcb89e911a1bb60d9a4a80ae2ebcf" >>,
    << 2108, "d7ee8f012241571372c76160b7926d86", FALSE, "57a0052d546f53ac", "99c63734", "fd48dcef0d629ceb6c56f20b7ebbc97b" >>,
    << 2121, "c6994e5698d21b78e3519c1a74145427", FALSE, "345a0022876d7c1", "b95816e7", "a91bb0833979c3ca4711dd9fa922674d" >>,
    << 2127, "8f8bf76f0dc7d60db841cc37096732f9", TRUE, "5de94962a2053510", "cbd496fc", "2adfd7e3f8588ff97728c356bde33a63" >>,
    << 2131, "44d64ae4c3efac7fd42f03077d635c6d", FALSE, "4d2f551890d3a72e", "8505ef09", "16d258da5f8861a51b282811e83954c3" >>,
    << 2136, "049ab3717bf76eb1eed0524aece7e886", TRUE, "2ae2d04fda68bc39", "82caaa77", "4a0907b53122b71dff846e3ea9b5bf46" >>,
    << 2143, "73eb1a114334518c07e55d5198138080", FALSE, "439255838c9b7574", "ba2a236f", "63e87d4f44b4eb87ff17623dea103b19" >>,
    << 2146, "15e1facd0d6fdcd241af5ca8c9b1977e", TRUE, "d5191c65cf54d17", "3a8d5de9", "40df83696aeb2709d4d80addd4405c29" >>,
    << 2148, "f427fd9033f5bcb14989d30e9e5dcdbb", FALSE, "71f0e4888f296877", "4e3259dd", "eda833453b9ae2f3b323464ed3221de7" >>,
    << 2149, "af6c7cee6775fc28f9a4a5b7a82b7c02", FALSE, "11fcb988d90c080a", "3bde3f05", "ed458789e70d2e62e94ad25c43d168d6" >>,
    << 2150, "ff4ba6d8b160d8476a9cfb6e06ae4f78", FALSE, "e6c4f831292fd89", "e4fffe0b", "05d403a5ee72bd0e6c907547be84d491" >>,
    << 2156, "f10669b1892ccf646138d55514f4a058", TRUE, "60f39a38579cf967", "439379be", "78db938a42b4ee518ebcdb9647033ee3" >>,
    << 2157, "2f37db321d4650228c2ff2740534ede6", TRUE, "58ab2fa789c1d8b1", "50858ec3", "ffe9e2678c0045090e300284a8c4de4d" >>,
    << 2165, "50597de48b91b740ce74c21230db1c4e", FALSE, "71e69a252a18f7bf", "9ac21a9a", "01a54b58dba080c852ae0faaeadb8276" >>,
    << 2166, "267fa68a0c69516afb6b3f6424672f2c", FALSE, "3c00ebd7eebf1fb8", "95f4cb00", "fdc1a78e4545ab73a224972c52e09927" >>,
    << 2168, "5b98b35e309e5b030bfc619620d3e7ee", FALSE, "409e0763a9be09f7", "522e4f3e", "dbe21ce4d80b9c283c8260010bd09b31" >>,
    << 2169, "bee6668128f85f4af011b37fb92adb91", TRUE, "29156b822a84610b", "dc16f3d2", "06d5530dce69ce225a7a7acbc29611a2" >>,
    << 2171, "47ec965b1fc877288305d02eeb9ba807", FALSE, "4f3468cb26b9e505", "546b42b3", "9bbf766c1e302b8a0536a41507cfa118" >>,
    << 2172, "4783e1833adbaa1c5a19bf48acf6030c", TRUE, "24f0e82507973770", "bb37bc5", "745dcc9ad7cc8b02fb81dfc4baeac6f8" >>,
    << 2174, "c50b43b7dfbe61819bca3c39059c9296", TRUE, "55e484e80ba7344d", "373eb01e", "8a7fcc1385f91397509cf334a3770cfb" >>,
    << 2175, "545618e5b642347bc4603b7b75f33607", FALSE, "7a01268e83c1c83e", "4bb32630", "b1d5bbfe7f9bdc6df346ab149cb1e715" >>,
    << 2178, "691f88b599fb316b0e5e00fec2b38e25", TRUE, "f200c78c96a7b63", "69fd283d", "d6590ca61ca3407e2169fbf0685d9e80" >>,
    << 2179, "b62227a7f3236d26447eb0a03fa96bc4", FALSE, "304d055b6077d947", "5ff87dca", "9aa3e09371c2c023728c1f6dfb361314" >>,
    << 2180, "8b1fb6521404d8ec6e49822e2669cab8", TRUE, "46636362408a2850", "552ce9eb", "49cb8bdd585c341ecf8cd69d0317cbce" >>,
    << 2183, "69fce75e2350e7a3341d625ef3456f62", FALSE, "5d4137b380eae9bc", "c2e3aeaf", "4da1258945a3c6391c561513ab95d847" >>,
    << 2185, "dcd0ad00b6b068b8495b7e8e149c9e97", FALSE, "2c036affe6ee49a2", "9e31dc48", "74d1415332cfa9407772e004fb7b4a30" >>,
    << 2190, "04dec902d467a48a47ab17c822078ca2", FALSE, "23b97c63707334d7", "a8622144", "1d23a0fe4deede76e1f93af5138e3157" >>,
    << 2192, "126f8a45b18dfe1689917f451f8baf6a", TRUE, "78cc64c7e80a83eb", "9dcc28bc", "36bba1c0477217e0c756026cea4bada7" >>,
    << 2193, "e933a15ee072a735d61362deed03307f", TRUE, "1778c8cd7e68ee8b", "ba731dc6", "bc4b4c89879f283cd8cf1cdc21218f5c" >>,
    << 2194, "854b0ba8782aa47958b727571b44a5f6", FALSE, "1febb41eb607c6c0", "decc3ee0", "f74c9b87d63eb2ae9404ebf8d54206c2" >>,
    << 2199, "8b2493d1e717e020d0fef4c5ddb70fbc", TRUE, "29542bceda15331a", "727a0064", "2b27283ae01ebce98619bcf9601f898a" >>,
    << 2202, "cb507251b158ca526528430302bbdc65", TRUE, "ec0670af038dd0f", "61038b47", "142d0383f148d6ec31f0b028845248e9" >>,
    << 2212, "c4f606bd23f416a0d111c1bb87f37089", FALSE, "5dd3a4fa9f0f1b59", "75209dbc", "3bb40c65b724530eb3e44853f10e8656" >>,
    << 2213, "b56156ed67bf63a3f64a866a6bf35632", TRUE, "1941df6bc1feb25b", "2560e597", "946964b367b10853bb668450af92de08" >>,
    << 2215, "874494ee9df7f9d81b64f24bdf634758", FALSE, "c155e62c191dd9d", "993fcad1", "45a28a52d26bda24e1bef1283887c1c3" >>,
    << 2220, "a01a60ce45aa3c04ad4026f621315278", TRUE, "7139568d31eb17d5", "801701e1", "d4c3e805a2d771fa821aeaca9e60f93a" >>,
    << 2223, "94a47c216d62b5042966724ff7bda3a8", FALSE, "682548b51eaccbda", "4344d1be", "36cd6ed9bb4212b20e2de3feaee9a774" >>,
    << 2225, "5da1d18f7af15c696f373431a79adaeb", TRUE, "31f25aafe1c1fb1a", "b916052e", "4e8338ca8d319d61df5a70c683a980dc" >>,
    << 2227, "40617116a97af9f2094e92d8cafd8655", TRUE, "615e6ccd62afa4e6", "156b7fed", "29e4dc25d4f096c4edfc7b423ee8c74e" >>,
    << 2231, "91dc203d3284edaca8dfe06b7f2aebb4", FALSE, "396daa8c267ba1f9", "6de9048c", "43ff35bd938973305ad85ed80d8f47c6" >>,
    << 2237, "132bf6915bc34b130b876c57217f6183", FALSE, "2e6290671abd4536", "c11b7e1a", "238ec32fcac53740c1f1938207a0e1de" >>,
    << 2238, "46d64d2b316e047299e2efeb5d8b000c", TRUE, "4b6b9168f54728c9", "40b57e10", "3eda89b106545d07465f182e333796a6" >>,
    << 2239, "ec50aa3f189bf9afb5e9395d488eb76d", TRUE, "277111bcaea70485", "d94b9478", "d9400194b9667ec649067d46659ceead" >>,
    << 2243, "1e8a48a796ad2ac64ea2f050a65dc5f7", TRUE, "4df8c34af834194f", "d7c22c29", "6d39b6bd915a2349737e366c02d08222" >>,
    << 2248, "d69ddd2dd7f37d9962462725d282bacd", FALSE, "51242501a41ce726", "ae5b7544", "76179eafdb18daae4e90bcc57f4509ad" >>,
    << 2249, "5c4824eb25acef95c0ec7dee68921587", TRUE, "3e88597177bcec68", "2974b1a9", "e6e458c807c868fd1062cfd25aae987b" >>,
    << 2255, "52285c09939346d46ec1789babcc28c8", TRUE, "2923bcb0d6139551", "8a52e736", "b4e2baa3165e66d1d8dc964e59f37950" >>,
    << 2257, "be833f5793b708c1d169379c6822d512", FALSE, "7be11cc36c5152a5", "e98aeb98", "7c3dde51a026d5ba8a68c6f8144f3d2c" >>,
    << 2261, "891b254561051bc47777dfdabaec5f8d", FALSE, "26afd9fbf8118a23", "8c91cb6d", "1886eebe3cdeb303307808dd3990f839" >>,
    << 2263, "29ea823621fc72fc8b9e3da50506a02e", TRUE, "48abb5c95a15cc06", "2b75d474", "35c4366d73a37cba7fddbd1f7c986aed" >>,
    << 2265, "0a73e24f18459395981bde32e886a327", TRUE, "710843cd0ca6eab7", "85e03c05", "1b93664c70b607a32fb23e64ad731142" >>,
    << 2266, "c55a1ed263583368f796309989898059", TRUE, "546dc0bf586eb478", "ee220d8c", "b8cce0bc67ab4564efda9d1b2ca0a7ae" >>,
    << 2270, "4a5b9b1a7a880f6bf532b165b8de6326", FALSE, "56d000c8aef63392", "d7a95dbe", "88607debf5ca41a86f2ca3b5212da743" >>,
    << 2273, "8ee5d78f4f197254ec48022bee7c6e18", FALSE, "6506ee2124d9b4a3", "3f25215a", "b4db1d2936c64df3613b17dd6c61a1c8" >>,
    << 2275, "6301ba414f3c9cb2996404dcf06ec4b0", FALSE, "1543908e1cf4f850", "2b86ac4a", "8aeaf6ae00c6c750fdd51b22281703f5" >>,
    << 2278, "c205dce94542348915858d0c5146ed87", TRUE, "56335cd74c377fc", "348251fa", "52eef593d5f94273625dcb4b6f7dd8ce" >>,
    << 2282, "82b5ab0b464fe053de88ae351bf2a7e0", TRUE, "67dbd74f031fe628", "535226cd", "cb0bc1fafe7da3a1032032fa0f2e6ea5" >>,
    << 2283, "4250c605afbb90fe08b8dd2d99b092f7", TRUE, "1bb7cdf6e4e6f3a0", "f44ce36e", "ad2bc907d2dd230f2319314afc9670f4" >>,
    << 2289, "de66035e7e72835ce7345c94eaabd444", TRUE, "4dd81b424f5a8ab1", "c73e87b9", "ed99015cbc435f1957d48d0e8c7c2323" >>,
    << 2290, "15453f1833b709b3d527a1fe7eebf22f", TRUE, "686c82763f5a3b76", "10cf6681", "720dadef183ed9ab7b23a958a389e41d" >>,
    << 2292, "53200cf016a27f8205250879beb9cd1b", TRUE, "339e94c6bda9287b", "792a56", "6d767cd721c463116561fa585a28f271" >>,
    << 2295, "c0ae629d97b68447d3512499f0665939", TRUE, "2c041168fc1d9916", "1971923c", "2787a8fcbb93c092aadd83dba90dc931" >>,
    << 2297, "26424dbfbe79fe8d8478d70b66dabd00", FALSE, "6aae457447e70b8c", "ff7f4242", "837c3b532b4025ebba927c535cdc0307" >>,
    << 2303, "20d72faefea525bff52fc59565dbb498", FALSE, "602cbbc0e5e4e9f9", "8959d12c", "e19e39ff4da3b80c62b56403b2ff16f7" >>,
    << 2305, "3847eac2812417137269907404fa9e59", FALSE, "49d844bd778a9a2d", "33d258e0", "b059c9ecf8b0927e3e3ebdacb228121f" >>,
    << 2309, "8e1da0a9aa88cf10ad076efc90dd2070", FALSE, "6664dc2c0a487176", "da3a9dea", "a014e4953f698759d05f4e9e138ac605" >>,
    << 2311, "a9f32ae6cca7d62af934ac0274f9fea6", FALSE, "3610bfd481e11fd0", "1e5e527", "fbb96a070830213e1dcbe7b28a1c7348" >>,
    << 2312, "70b5a89254c4a5a1d5d3d235c1f7513c", TRUE, "4d0034667ffb7535", "d15afa55", "9d1a4b5f1f37d45e9abdcbd6fdb718db" >>,
    << 2326, "3ed025a098c62888343a28666a8c4796", FALSE, "634a06a03f4fc24f", "7f2c75f2", "fa6cf8d3f1a2e366effb684a2a0724a3" >>,
    << 2328, "9902dd440e9879e3b7de8aba8397a10f", FALSE, "41ed9e8647d38c2a", "171ad8dc", "094b9c0d91a7fcf9dd5a8457de431e05" >>,
    << 2329, "14a193647547de7f8b15f96ef510946c", FALSE, "5c624ca638a23191", "f03ddbac", "cb8824584575e4bf4b9a6fe0dff13ce3" >>,
    << 2336, "7ef5cfa5c28c61637cc12403d6e3c1ef", TRUE, "1bb6f5e168414592", "3a95b8a3", "6f24ee959a19634ba88d7734f5719092" >>,
    << 2339, "b0f68b2085fd6966bef15caed184c1f8", TRUE, "4faed9382f0bd71d", "f3694c02", "8e8b6043b4678609634618bfa6f587c6" >>,
    << 2342, "fe57891960374ed51138ddc1c52aa5ab", FALSE, "991a9d5503731d", "5c2cf60e", "c1b526b96d27c36a8d8e7b60a2ddf4d6" >>,
    << 2344, "2b2a6d424fe65b1723934b7a78f751eb", TRUE, "4752340e36bc01e2", "bf147de0", "b71763746e8c1940be41bccc94830ee5" >>,
    << 2348, "7c8fd4cd76cd880fb0a69102ca8b5cbe", FALSE, "79b67ff9a403b385", "d19bc227", "604106d64c38ab3334a234d799dbc310" >>,
    << 2349, "f7db4081396fa28b72bde336efec8856", FALSE, "457ef2cf334d14c3", "45cebc90", "128fa91bf999c535faa80ce4ec21451a" >>,
    << 2350, "61d629bef1664841b76e8549df6902ff", TRUE, "26d58c2277699f87", "aadc51de", "c7f480dc7e0d3af2957deddc71be9a3f" >>,
    << 2353, "69b757a54f23890e2fb32a25d9967f8b", TRUE, "2f53d592fe800a9a", "73b62bc7", "f3fde26c5e80bda373210ecec4e961f8" >>,
    << 2355, "bcc8ac959f2904ce8fab6f996a378d8c", TRUE, "50b58cd1abe71c31", "bce833ee", "2c7ed19399d5b8c042c95208373141a5" >>,
    << 2356, "213fdae5a07df20f3ea89deb4192b91b", FALSE, "2ec110ff7bfa5899", "9b9a7949", "08816d971fb2bc02007cdc312a0b6633" >>,
    << 2357, "dc8f3144bda501fb9580f16863374259", TRUE, "1c1510d90371ff88", "222d392a", "2c25e852602859f8aefa9223cdf62317" >>,
    << 2358, "75991be70f8fee112e3a489cce9c2c2e", TRUE, "321280ce7a89447a", "cab7ac35", "e09be98a96f99d88c4150d239ac333e7" >>,
    << 2362, "ebd397581801e54a8ec3f020af860ce1", FALSE, "6acb1a4ebc9c90a9", "62fc2ea7", "c0b31130bb236c412e2400f4d48743e3" >>,
    << 2365, "a6a4d6b3e1a2d7a1e54c9848e9d19d9c", FALSE, "5adb48216e640511", "dcebbf69", "61f70ccd2e45f131bff4ba75c8e09a0e" >>,
    << 2366, "797ad9de3f049c9f714d988810229e27", TRUE, "3a348f9ec4dfd1b2", "48c3ad30", "151eef54e8aedac7442cf0806e6033ab" >>,
    << 2369, "6b4bc9d26442f155fb4fadf9a4e09795", TRUE, "454d5bef799d172c", "d8a79d0b", "a9db5ebca375588a69f1082cc8e783c9" >>,
    << 2372, "fd88a3b2a2c1f41e8560d72d955ef6d6", TRUE, "4f75e94a0b1c328a", "5c630cb7", "6bef877009b2c4912ebc545b898c2945" >>,
    << 2387, "d249f0c8db53efdad3e7c26af157f014", TRUE, "11a0ce642723a434", "350209c0", "8169d5c65e4e1f488d0d3b48c83b9da4" >>,
    << 2389, "80c9ba79bf024c66d47ba444e3952efc", TRUE, "274241fb0d3082f3", "de2369f7", "79256b0a8c6015b8aae1e10c36be6be0" >>,
    << 2393, "f57b4ffe25d6d6521282198854c69334", TRUE, "4a63837b4c244b87", "17872ea1", "d66df60dd5000321f606db4f995c3b8e" >>,
    << 2394, "8f06ac55a9309d98cc88b79f316dbb43", TRUE, "7b0b075f6344d3fa", "fd5a9aa7", "57936ff436f06b4b5b144a8ddb31d656" >>,
    << 2400, "8e90474fefcf45137217f9995ff6473c", FALSE, "33635d44bcaf58d2", "90129139", "a121d7be81b8dcb3451cb9e0430f15dc" >>,
    << 2401, "ae2e1e470e3807a277d3a6f88904615f", TRUE, "24d8f6eba3447859", "231a0ee1", "9f79181acf5fb8a44bdecc818b32ee06" >>,
    << 2402, "26d4785818ad3ad8bef715f1714ac945", FALSE, "5f5c668e57fa7bb7", "340ba03", "7d1df6531fc3c1eca4260104f993cc83" >>,
    << 2403, "501c1f863d6cab28a77d9e5a758339e3", FALSE, "200f181429b1f317", "e89360e5", "5b9eb32ae1a415bca6945defbf186357" >>,
    << 2407, "0bf675bcc9588716d27362dcef057b37", TRUE, "534e836ab987bf5", "93a8c03a", "deafebfda711a6ea8a34c4923d04471c" >>,
    << 2414, "caabc9d17322b33d15afad1ced007827", TRUE, "44f0074e520b7df7", "df2d690e", "8c5e1147e9a9d8431d558c2deab67e21" >>,
    << 2418, "502d6ddc762e912ab4a5859b77ca4901", FALSE, "33fcc2508122f3b5", "67404b54", "9ea05799483502b32745d0a5d4a36c7f" >>,
    << 2427, "ccbd22d008bb3725111174e85ccef8b9", TRUE, "4ec1ef43be44865", "7ea47045", "ff99b11929b0993617d38d935ffe025e" >>,
    << 2433, "124a47e0ffc5dc7ce93d821f28407c64", TRUE, "1affde9538508923", "834c21b1", "4a7d50e31d6c232e6227776199d53b68" >>,
    << 2435, "1f651beef11cfac46d1dff1ab1dda041", FALSE, "73e932a81ae7071", "ebfbcb3f", "210d22a91f037695774eefb4ccc090fa" >>,
    << 2438, "f3ad059e3262f485d75213a25c9c983e", FALSE, "6756b59cb9bec92", "3ead4225", "859a50d105f70d172973988adc3523fd" >>,
    << 2441, "4560d12d4c2c92137b5713a2c29db873", FALSE, "40030065deee9a14", "ae94868", "57bccf7ebc900fecb5c6ab6aa6c29552" >>,
    << 2448, "5406d4c5ae1afe97ed65e2b31f4a9a29", FALSE, "25e5dd49e3cfc715", "acf2af22", "9b2a3f14ffa7449a080e5c449c257e0f" >>,
    << 2453, "9852122db6d251f3182b0c60a1cb533c", FALSE, "7a038c689d861602", "7b5337b5", "75af733a50a0149b53e9959f2eee0f7c" >>,
    << 2454, "1bd4867d49420e3b1410b2076aff8b40", TRUE, "1966fc87d3e5503f", "de66e1e0", "a5fa28f1eaddda8ea536961a4cbfa238" >>,
    << 2463, "5f6f83427fb289a43fd175bc6235f77b", FALSE, "70ca2d4b2a5b1b30", "76117998", "df3e714b237fc5c2bc0c49a7671caadb" >>,
    << 2468, "77c8a10b23378cc7767dd5cdb9d4baf0", FALSE, "5aebe7490ee22df6", "ab4b386d", "17c453d12e5cf0e5ccf6379addbf19d7" >>,
    << 2470, "937207091172e7b1cfee890facf8d4fd", TRUE, "6a232d7ee30dbe21", "f9ef6b48", "08dda5f7c3765d6cb0c02213ab7ba7f5" >>,
    << 2471, "740aec1fde9c2c0546eddf23de594bcc", TRUE, "507aa06299886a44", "1cea186c", "526610cbc9416d1832e416b93d04276d" >>,
    << 2476, "da14ee59c1c0545754735da39bf4e80b", TRUE, "1f8f94141ca40834", "c210c7bd", "e34959a6eba153d38bc0c5aa86d15838" >>,
    << 2477, "19fa112c634f538824bab7dc2da2c2c6", FALSE, "4e375bfba2f1fbcc", "ec6ece3", "21903a4c2b330f1bd4b446354b677bae" >>,
    << 2484, "f2a929dfb3dd5a6bdbfbe0c2d7f9392a", TRUE, "71adef3fa8a129e2", "767df0d4", "f8766b7a75730805e62c0373d373d03f" >>,
    << 2490, "b94b4db167864448f573f2892f8b1de8", TRUE, "7859294dcb5157d1", "e6f11682", "552149c9acfbcaa666f34272b3094ca8" >>,
    << 2494, "8bea4f6ed0bff6324ca637c43170565a", TRUE, "6a5c00b715cb2f84", "4eebe6b5", "a5d33190dfcc6a71f9ea0b51ddc7e55f" >>,
    << 2501, "21358dcffa1af28feee371d3ceab0cb7", FALSE, "707e3a0e2a9bd622", "b3905fa1", "700f7218391b03b73e6c93270466885d" >>,
    << 2505, "053f7321bad3f4cc33da448184893001", TRUE, "70d6ecafcca81070", "84ec411e", "c7d079ad165ba4dcc7ec262205963013" >>,
    << 2509, "59a138c93f28fad1fb52d18c3593dc95", FALSE, "2bc16516483474a1", "4d8e1507", "b2928e056bb84d619ce9889ecfae0491" >>,
    << 2518, "cd9c6f8afc5435e7d138e6df5a02131f", FALSE, "623fb87220b5d827", "ab6abcd", "140611a41010b70aaf5ec60a6bccc3ca" >>,
    << 2524, "4895bcff48ae881f58d8164b209c28dd", TRUE, "6996a5500a0b160b", "e3ffeadc", "f5f604d7e74b29f25e128b74512ed9d7" >>,
    << 2525, "ff113a6d80af2d85e6f13e50352c146f", FALSE, "2285f0cfae32e790", "ea00d0a2", "be5f9929a23a3084df2cc5436c5cb91e" >>,
    << 2527, "94b08269a4863108312de484576e8e9c", FALSE, "4af9b3073d8cd467", "2417d308", "623ee996d422fe141b3e5824905f3df4" >>,
    << 2543, "112aaad3dfe669b68cf66833e842e696", TRUE, "307a0d7b1f7da84a", "7b0980a0", "df2af3649800dd4f0772a9c3cefb90fc" >>,
    << 2550, "7f667510ecaa5394a1d102b3748dc551", TRUE, "319fdc46f00c9d23", "7ef7327", "9c1e63f0112418a77f1f9b18c814e676" >>,
    << 2552, "15c8ddfdab5ea7bb44f896e27078b88d", TRUE, "7b9ff53aa286ca04", "c65c3367", "754dc85f03e861e4a2a14abd7d6a7464" >>,
    << 2553, "ce38e97ce0fbf466a059c408d47a0a8d", TRUE, "63b4de883e4c188b", "54302489", "0fb68301c88b4071b1709fdb57e89592" >>,
    << 2554, "fb7cda159de24053128f644df48800da", TRUE, "14439251667cd7b7", "68420dab", "1850096d6d29fb884c2f288266b84602" >>,
    << 2555, "c916aec0401eb9e5e9aa8b485a790fa3", TRUE, "1eb692402c464eb5", "c862e73f", "85aa84959f5c4cd3a87ce0bb8b1b2b82" >>,
    << 2558, "2d2d0e0815f342f3d27cc5d25f144be9", FALSE, "309b134ae58ca9db", "4468e725", "ac4f9048ed50669fbb3a1cf63083e960" >>,
    << 2569, "c0a5f60857b931ea741a7b593b8170ee", FALSE, "6cb44663363cb9f5", "a370ce8e", "fb5cccd1030d8942a8ae6fcd7b0c0d73" >>,
    << 2570, "40cde29b191a7a06f6c16a4e538d1c62", TRUE, "491499c66eed5995", "5385e1e9", "2bd1134fc40fb2c9bc835c8a23c22754" >>,
    << 2572, "369dc649ea4dd3784578ee37814621cf", TRUE, "70198ebee2637c5", "2c882e1b", "1442016b4779cb160984dacea4ada080" >>,
    << 2583, "c35732b7e07337c489abaad1f064d260", TRUE, "6825c6dacb79f2ea", "c9000427", "d9dfaed84a2d1cde1391c852b5291855" >>,
    << 2588, "7eb027b642f03f14d06d38306fba7fec", TRUE, "5c767e408f0274e7", "af1c9779", "8ce3362dd6d36e6124585469dc2a66dc" >>,
    << 2589, "dbbbbf655f715847c46dfe27cb0c70ba", TRUE, "37362619815818fc", "623a448a", "00d9b5167143e019f03a52c0589d39f4" >>,
    << 2595, "a472b16d393a8b88b7f4dbb6ff188f2a", FALSE, "1f529344a17cd40", "24d1044d", "c1e3641ad815befaea99528a0e41c936" >>,
    << 2602, "4274030f21e14800ffea9c3cbb235d38", FALSE, "6cd0648ed83dea35", "126343f5", "6e024014532389b81df98fb2d11ed3a2" >>,
    << 2614, "760334d8f6a6a37223b485ab95411dca", TRUE, "3ca97a9236d24177", "b6ec42a4", "15433cf5913bbc95f3b46e63ba2e53b3" >>,
    << 2616, "a01b637d69e66b76c6edab86f4d45c7c", FALSE, "445653da01f39bfc", "d5896821", "19170cfeeb13941b3f01c8b20c77ff63" >>,
    << 2618, "1dc79368bd4d9d0a1d598899142fc8df", FALSE, "493fde5f9b394736", "a318dfe7", "ae85a3120ce0ab17cef97ef9aa56c066" >>,
    << 2621, "98d5ab344ef6b09b2d23881d8d8c3ff8", TRUE, "290afdd7c89aaa16", "42f7aa05", "fafa1bbffa88bdf3b947dda2b46781c7" >>,
    << 2622, "b179f5fbbd67eaf482afc5fcf8ff216b", TRUE, "6165b06dd1572ed3", "9afb344e", "6afc737f22192558cc0d2c7af9b4e0c8" >>,
    << 2625, "8686acb1d2cd764f9f4644a9e92080a5", FALSE, "75580cf5f47b90dd", "34ab1dc6", "e1357c3e950b42b5f730ce9951dcbde9" >>,
    << 2628, "fdfe933b4dc0996a74a46b689b98b9e4", TRUE, "6f3e7cc0a3170e0d", "9ce4b408", "77c4adad33f2b1cd2e4f572315dd8152" >>,
    << 2631, "c0960de65ef003431c710ed1f44eef97", TRUE, "5dad756c2c2968fa", "421b2dc5", "c8cdf596f914186cfd4af10f31f1a1d0" >>,
    << 2636, "13fcd86cbb1a680975bc8b3b261b804d", FALSE, "408bdf4cd5c027d8", "b98c9405", "14c569f96af62cdbbf40ed3407f78667" >>,
    << 2638, "53a362658b1c4162e17c72bded3aa8d2", TRUE, "16b6f6afe41a759", "a13971f0", "cc8c320224db15bde5aa0b5c790221ef" >>,
    << 2639, "8c85c4d0853c16bb5da2d93309fc63cd", FALSE, "53f00cb4d4fdaa60", "654091a4", "18e32edf48d357bde40a46a60bbfeb08" >>,
    << 2642, "0461a95c601cebdd9cd519a5c14b7a41", FALSE, "3e215da31869401f", "dd3005fb", "d47f2fb99c08f8d7a2f82fcc9e2f200a" >>,
    << 2643, "bd1c85da5d458127528e789e395ea1e6", TRUE, "28f44592d28eaa6d", "6564d5fa", "e28b61473eb6dfec0dc806bee8257942" >>,
    << 2647, "413b635e8c285863fa95ba0f8b278de4", FALSE, "78ca115c44b9c7af", "fbf64fd8", "29c08e5fbc622afc816f7ac5f64e92f0" >>,
    << 2653, "2d8054f0135b254ba536cae9cf7aab54", TRUE, "4a311e02ab8c22e", "6dd43d4e", "a47634cda0c92a19ab3cfd95ca73294c" >>,
    << 2661, "a8066b6731b7aff32ccc8489f12e562f", FALSE, "6066e90a7a654550", "9472078a", "62dcc0bc0264b2da81c09c07029c3021" >>,
    << 2667, "1a051ce3faa72819d920d5e7205f0cbb", TRUE, "cc95ee94f0ba784", "60a53f66", "00df1a9f630e6d61da69389552852867" >>,
    << 2668, "1888732c2b32d08bdb4d8f2e37f2b6eb", FALSE, "c450d2ed39e5302", "c20710f4", "db653aa2681bdba14fcfb8cba7c2b144" >>,
    << 2670, "02d88eb8bc675f7789ddb4a21ad54eb1", TRUE, "6ce6a385ce324a4e", "b4def6f7", "7ca1f09d928960f1d6b37184a23f7714" >>,
    << 2672, "ce8bd9d8e30b49fc15c0050b1af8d599", FALSE, "7acd510fd4c3cc53", "74f09027", "daca0eae526fd9e8d9d94ffa5abc9a43" >>,
    << 2674, "977795f8aa25d23baa6cac757a350fd2", FALSE, "6f7998b21515b931", "ea4f74a0", "bc7a7f5edb5ced088fade877aaf647e2" >>,
    << 2675, "2d2908853aa26ff4aa6f24181e382c63", FALSE, "1edfbe3b13415569", "7cc19b71", "8b1dd9095349dfa886b0029562d37166" >>,
    << 2687, "f8e73a0587ed6a120c0f802667f759bd", TRUE, "7c4bc4b7a2556d99", "dd1f2ac7", "5137469141db3283d268ee1d21287151" >>,
    << 2691, "cf4b5a4f61045dd44b1d4581148008d7", FALSE, "1105a80aaba2b70f", "43e3cda7", "2c4b6a40e0f5caac7ec8f127afc2db1c" >>,
    << 2693, "30ab3c7e18c75a77bc24853371cd20cd", TRUE, "15017a71edde5e82", "e5a0c0cb", "52811a8f0659fa2e398f858be1a7ab40" >>,
    << 2695, "cf3cd205461385ad04908d6fc4f8a721", FALSE, "20b251c31af218a0", "b2faf8db", "388faf61d9580a5cfafedb27cc6e325b" >>,
    << 2696, "f4d711cadb9eb0d29c526e21deb1350b", FALSE, "184f3591db6f4f1", "dce04a78", "30e3cb5d5f5096aaf93126c811a882de" >>,
    << 2701, "c542312b18ee09697d2ab074a034380a", TRUE, "7400ffd6ce8592d", "55a13c8f", "82962a97a1f333a2b347abc1450c978c" >>,
    << 2715, "4ec8be7edd38334c7babebd65a98cc60", TRUE, "1b2ec145809bce2a", "991038a6", "665900ad92341458a181adcc730d59a1" >>,
    << 2719, "67fd35f12a5b114d8d5d38878b5f8092", TRUE, "a601bd2a66d6f65", "cd5bc7a8", "0f15c820ce2c03902cb8f47666c784e0" >>,
    << 2723, "58d27774d8be51e7bcb3d230069e30a2", TRUE, "5aef727d9083b756", "b010c7c2", "22f4cba78742002fc8e61498acea5026" >>,
    << 2726, "8aec2dd09e6f70440f31e52f2ac2c21d", FALSE, "4fc81289626d5347", "d1a87278", "a6a4948c73dfcb1fa3824f38e846903e" >>,
    << 2732, "896346ec9902a25705ddca2ad04d2e13", FALSE, "cc4448343f5f504", "7ecc31a9", "8f389c057806beef7cfbcb37416612ed" >>,
    << 2734, "8177d98b0c7d82c7a476a407b71a2470", TRUE, "1593d627490af7c3", "de631215", "b7c0515d3130cb03154f2016ca4de3f0" >>,
    << 2736, "438057897ff98a9de20c0ae6a132e32d", FALSE, "3227d207a63ef533", "b8711f0b", "42df954773ff9f21cc9d0b215431a8bb" >>,
    << 2746, "c6fdb5f63a57ab2da7168692cc3d9026", TRUE, "237c68510bdfe902", "1a94969a", "a1c6ab5b12f0229ddade0f3de2b82dd1" >>,
    << 2748, "60d481e0aea8cbf04376e846a17e8f1d", TRUE, "3e8843b7779a5f7c", "90a3d08d", "a284a8351bbe498a29ed8b8f0102d833" >>,
    << 2753, "4b2e90efec07bfa23b112724876a7ac4", TRUE, "4abe3268f269aaa0", "9a416182", "257c302dac6445a4765b93027a1f5e29" >>,
    << 2763, "473567619070fc6c13f892f58940e952", FALSE, "117d398bdb08d35f", "86100f60", "14944eddfce166e87e311a8ec2312eec" >>,
    << 2764, "6b26d73eb5e1b3134c3f9dc3cde36110", FALSE, "1625a3d36bd3fa1b", "7d4b0f02", "c59c243ea04066a43815f094a62705a3" >>,
    << 2773, "24c27173da1290977c1b33ad25079b67", TRUE, "55b7cb4edbf779c1", "e60f42a1", "4c3cb556842e8c65c7d27c23b1902390" >>,
    << 2774, "1e32d373b682d11faa689b4624939ebd", TRUE, "4d505202dccdf168", "74eabece", "2010fc36afdcf169eeaff01c4b5c10ad" >>,
    << 2780, "5cc726a3c7a46414064ef352fbba8d7f", FALSE, "791ad85d1b4df195", "ce7f14bf", "6e3841c377c27eca3b7857d167abd9e3" >>,
    << 2786, "dff5bcd814619d5268f41363cc3a41c6", TRUE, "5d8e8440e10dca71", "a2e353da", "92d9704feeeffc4159b3a25f4f7b0b21" >>,
    << 2790, "c30bb5e42dafd56ff6ae51923f3ade35", FALSE, "b86615958b1b24d", "41683324", "0cf78bbfccfb56208deeef30c23ee7a5" >>,
    << 2793, "4baa4c6b75b6daada53c89b52b43fbc7", TRUE, "3c691f7d38f4e39", "1bcde44", "716b2e5faaa53d5ac83b4a0182a4524b" >>,
    << 2802, "9e8150df866931cfe0c03687dbe48891", TRUE, "353fe52ba1ca84ee", "9651795c", "f777a7609f3a72f7b72df93fcf83df48" >>,
    << 2803, "8aaea0020e62a47ecd868e1db2351353", FALSE, "202e6c2f5149118a", "dd681630", "80c103a06bca6647c825752ac25c9233" >>,
    << 2805, "ff002037eface8c4d25522f17f21ed9b", TRUE, "540762145a5b07d1", "bdd46cda", "9d9deaea524907dd8a8fb9178da67c8c" >>,
    << 2806, "ace8e0750bc0c7c90a375f0d57d55a94", FALSE, "1e68b3a759cdf04", "7367579f", "61b5847eaaace2f1127cc43c08670a62" >>,
    << 2811, "d0b2bdb7152a7284ba7fe91d9003c210", TRUE, "2e7cb5baa01956a9", "b64115bb", "2ed7a52e9fd6a9fd4520fe44a92dfda1" >>,
    << 2821, "edd4d277e24659cce389669a0d2fb8ed", TRUE, "19b2b3eaead9f8c0", "de6fdd89", "7ae0f05ae85564d80c31d26ebad770a1" >>,
    << 2826, "60600bc2bf969eeb7e147f3315bfaf66", TRUE, "4ed3787fae8fa9d4", "2bf4216b", "683f6fe04e65a513d50a20723ea1668f" >>,
    << 2832, "80a44b819be4fd542477d5a0b8ae0bcc", TRUE, "2c76b1156f8f3de7", "852afe1a", "ed4e62ae39ef213ad6d5664a358e3cbd" >>,
    << 2836, "53d0edab26501b36d341a45c86bcb710", FALSE, "64ea431da5e208a7", "c78ff02", "e770a80bfe6b0c0dc59606c4237089a4" >>,
    << 2837, "a47a53def30370ba80ba1358aebfb9c5", FALSE, "2e328e97254e28dd", "23c9ce6e", "7e9f63de8b17914971f3d17895236eb5" >>,
    << 2843, "8178916c4136debd338e409c3474cb50", FALSE, "5d955b3231af9414", "cd0518af", "1e387a9c794fe8e70100c715d84c868f" >>,
    << 2856, "48d1f1eb6c698495edca06d6a496096a", FALSE, "3e32735fc3a16425", "ba93b041", "3eb9712b5472c98f5b71c285ba1c8c26" >>,
    << 2861, "a573d11239db3f54a6553db315a88e78", TRUE, "43ffe1af29838413", "cdd8599c", "308f89c675253f4e5d2b05e6ebc9e19d" >>,
    << 2862, "f91e52c2f58c94232b2cf29a9f08fed1", TRUE, "344a9171d7418688", "ddad252b", "dc5254d85683e149e4f8217ea40ee857" >>,
    << 2864, "b5995cd329212b32997dcbe8e9d82ab2", FALSE, "3ee811550213dc7b", "d24fc32e", "9dabf70ccbe4c53d174b7efd9750b08e" >>,
    << 2865, "a4863d5eb6b4234d11d37736e19f56ed", TRUE, "2bf98e087a6a36b4", "1a58b8e7", "314af3904950782d4a72e625ec11beeb" >>,
    << 2872, "06349c7d48a0ca89ba773a3a81dbee7d", FALSE, "4227fb3f215dc454", "a3337048", "2ca05dbb712ac6ab120c10bd7c141b8a" >>,
    << 2882, "c413e9e4033fe1048289843cae8ec6bd", TRUE, "1d7ca59b677b2f24", "bb461b62", "e6da61744d9096fb9838089ae3863836" >>,
    << 2896, "c8e4cb8c2431396a3aa89aa3b9f98bc1", TRUE, "ca3fc6268cda7f9", "d4d85fcf", "1a75ab6fcece4887f753031dac1d57fb" >>,
    << 2897, "bd336e87ef59fc1c7fab46c2c9f0b25f", TRUE, "177d1917314e2ff8", "651e4b9", "c98e055da98f3db9b6a803904700093f" >>,
    << 2900, "55fd3ef77672a81b8516bcfbb2a0daa9", FALSE, "1c3a87080d0416aa", "bc0216a", "c130431ad0c3af34e0653009dcefaa89" >>,
    << 2902, "574200e76b953f62aba7ac5753658ca4", TRUE, "444a40fe5206d78a", "b63e0a46", "ca4231105392ea776b8c20eb303e29bd" >>,
    << 2907, "6bae6890791b3204ec439c39163a9875", FALSE, "4e8a84cc8c0b5e7c", "d335155a", "1f5dc7f3c5662e22532dedc5d4027ac6" >>,
    << 2913, "4baf076c5c47151b64eafccf46b731b6", FALSE, "72f5bb312204cff2", "45b5d671", "59af9d18b0f099c7e167f5963bed1264" >>,
    << 2916, "0a4dde1f8d05b8a67f25aa6ab1e08f7c", TRUE, "25e9d100ff50a5a0", "10c824e5", "902b729bd53cad6f681373c196820ef8" >>,
    << 2919, "c5041d7e75e24faacc748379cc522a54", FALSE, "56145df0686b6cf", "31684c63", "376e7a65d3f445444ebc98a2e0981dfa" >>,
    << 2921, "e42b193b86bac5d18060c3975b7e6f06", FALSE, "6687ce082379f132", "53a4ee2", "9a70e445e5bb8249fd7f095234192162" >>,
    << 2926, "b86dfe023e18296485cc1c05c55dc891", FALSE, "24c3d06e4c933ac7", "814032dc", "170352996df514a797aecd8878793491" >>,
    << 2934, "e091c8868799e521f189b4291f7dd689", TRUE, "2d0f12fd7f059305", "d1328fbe", "102dc6795f76cc9ed844c5c60e9e76c9" >>,
    << 2936, "0889a88355643fde317c387d6c86de30", TRUE, "2d2ab71b0fec812f", "b7dc1ef2", "afb92ee904c940701356e89743cb3e44" >>,
    << 2938, "55f1d38ab93f808b7d8c9fa032ad96e4", TRUE, "6d64f846e7d78495", "fed260ee", "bc68649d12fe6f0e17f023162c79fb15" >>,
    << 2953, "4c1cd00b8d25e279bbab9720e9b5111a", FALSE, "5c450a25115111c7", "4cb38fb3", "2d179ff6a6c50e4005cfc91b4e55c9e1" >>,
    << 2963, "3609fe0ae359bb034e42589978cee1af", FALSE, "7131a084a7f964f4", "88cf9370", "eec566d091053741e19052665e83f33c" >>,
    << 2976, "d7e2f624b7f41b25962cc20e3a51f0fe", TRUE, "1c2885fe8e3f0f27", "fd8b3fed", "12c0582a439cfa540c00e1cd38c33ffc" >>,
    << 2978, "9aeb7a045f4bf2d8ec4870015d7719a7", TRUE, "23a89ea7110e8101", "d8d9bdea", "76b35a18cc307972f4c8723bb7161334" >>,
    << 2982, "b5fd0a8bd6828059a174a3fe75643b91", FALSE, "6dcf53de184ea8ed", "74bf1fd", "e864b73fc6cdaaaa189134b4dbf45542" >>,
    << 2989, "c81518937e8154161708e43d811c1a7e", TRUE, "73c09179d22db1f4", "f99c2e37", "374e1dedf694f7defad0db7258341a73" >>,
    << 2994, "3f1b8efb262b8c25476ed424ecb1f49d", FALSE, "6c8fdcff03568641", "4107cdef", "b7f0e6ba4c7630a15e9164e08d11bd44" >>,
    << 2996, "07c04be8fd12b121a9ea2b771baca52c", TRUE, "2a742eca39e8e58", "4bb869bb", "2f1489830112b5511870d3318f0ed6d4" >>,
    << 2999, "d5b792afae36db4235af645be6785c91", TRUE, "1c994aaeedfbc0ab", "c4531e03", "f5e94cb07611152159b0464dcfda90ea" >>,
    << 3006, "b92d33c1d089f05fd3bc9fb8df699cf2", FALSE, "2a3b1acc6b46c574", "cb68517e", "6a81ae4c2f88010900bdc833885c4ccc" >>,
    << 3018, "9fdee70ebbfd4a1e4d9e72eaf5a534a6", FALSE, "47a96791c87e921", "e6b29c57", "2eb05e1d671e5dc916b195da7bca76bc" >>,
    << 3025, "2bee9632af4d32fc38c96c0247dd27ea", FALSE, "5ba6415d1511f3", "a7f01424", "7dde7760f539b2987acf989dfa4f9f9a" >>,
    << 3030, "573e2377a390eb6650babdd918981bac", FALSE, "3bee41202ac66aca", "ff085638", "814a542958a6ff3f8e43233e78968858" >>,
    << 3034, "77ddc6658680271b22eddfc1a348e228", FALSE, "70a4f0ff30438a89", "3d16b3fb", "3c6d60d4b2f7dd56ac263bf55ff9abe6" >>,
    << 3036, "ae0ae85a21a0430686c6a87398cca7c7", TRUE, "175f6d0d9689ee4a", "c51f5f35", "fa858f9b08dda9eda5190627b32ab4db" >>,
    << 3040, "52c9b41d2cc2ea3962fdc30d4072e106", TRUE, "7cf246391c522c66", "dc93a518", "b8aa7f592f66fc55523ba88193cff0d1" >>,
    << 3044, "d4a4fd3bfff045e3eca02c0a83a7ba93", FALSE, "106d0d443d3f303c", "547ebb1f", "afbf04fcae2cde49537e6da4c1fd6ec9" >>,
    << 3048, "1e1bcd3985f98825dd857cf1529c9e34", FALSE, "49bbf7dd916fdb4e", "32fffb03", "24838fcb22d15f5f34b41deb53290f00" >>,
    << 3056, "8462169a6c53b63356108052c5a79068", FALSE, "13974c9734e3017f", "1ef89a26", "6b9581484e1406da91a1d47a9d915759" >>,
    << 3060, "b926b62fa21f13c99f8d1f19c5975bc6", FALSE, "d3174d019f48b9", "a60947f7", "4f6ae8e8799343cff98a724842a36255" >>,
    << 3064, "266907a26e773617ee632d9cc335b8f8", FALSE, "55ab39ba98c43108", "5d2861d2", "b61c1a3685eed42fb6f8202167086684" >>,
    << 3069, "91edd29ef66530aaad8200ff3464da4b", FALSE, "11680049b917ee5c", "778ccc1b", "95f067c72d7c32dce2282c4c693128b7" >>,
    << 3071, "3fe155e9fa5636ea12a6ce85036b43b2", FALSE, "2d675d3ffc404d6d", "7e469b15", "19e8cd4142258126c679b761d9619239" >>,
    << 3076, "4ab928b2605734d93c6e657d0db16fe9", TRUE, "87664fba875d723", "fff59cb7", "7c9905085719d8f40e3b265e70289765" >>,
    << 3081, "44fa5e7d34fe7cc71929306cdcbd3d2a", FALSE, "4e34528db7ed2955", "49d41499", "68f88638312c40ac785bfa7f929d0ad6" >>,
    << 3089, "dcef0719e36e5239cf9aed7c9c399425", FALSE, "5b41ab4294a01242", "c6d8df00", "27496281e17ab76ef8648b33678163ee" >>,
    << 3103, "3234ce1ab1d99a6c7e212626dbaaac54", FALSE, "532536eafe1d8cfd", "d7588116", "00e69cf217f84331538f651631ccdeb3" >>,
    << 3114, "e45ea0de02f7dc4fed9240d549c24947", FALSE, "186b31520ed7dc03", "62bcfbe5", "846c1a6d3679779cc124df395804cfdd" >>,
    << 3119, "7d8a18d2bbf73474d2023cedf7047668", TRUE, "32b72606bf6aa53c", "9effcd2", "6e9ad67ca93e89a8888bfc7688a681a4" >>,
    << 3125, "2faf20243096e64831ec58300e2eb16e", TRUE, "4246d70bfb8d1028", "f65c27ed", "3ef26102c499ceb557fee5b28c399022" >>,
    << 3127, "90f819ecb5935c787d79c1f1e42dff9a", FALSE, "39ad486168c21e8a", "91f5fd3b", "5d121dae10cc44b879b077df413d991d" >>,
    << 3139, "cd1d68d61490a029c7113d605d22ef3b", TRUE, "5a217fda8c04754c", "e1f4b5b0", "226de87d2869a545ba7624d3a435d419" >>,
    << 3151, "85efc9e5f16e607bb3c501f352e787e9", TRUE, "1c5c07d32e693e37", "64059fa3", "312323d1c229f8c118fcfa36bef1c18d" >>,
    << 3161, "beb98cbcb22936c4136803910080509f", FALSE, "21e34246f6155a5", "70b90365", "26854e0d08a828f6ca81ddaff47972fd" >>,
    << 3164, "ce8180d77e49b39eef64be2619f387fc", FALSE, "372638639e47dd2d", "192c5cf6", "a1f4d56d3632a8607822fd4fb2f4d3ef" >>,
    << 3165, "57b3d33440d0f3d0052243c30fc5c713", FALSE, "20be3f39349355a9", "7b417626", "e8ef0a1e4b2b75733f579b9429ff02c0" >>,
    << 3172, "9170916ed63d0968bf183686745947aa", TRUE, "2ea8f44bbae75497", "aec63bf4", "8e5360a2031f7e82ddd4ce50ea2be3c0" >>,
    << 3180, "49a81608f04844c9d7f2fcf696e09593", FALSE, "23660f5238290d42", "f994a897", "0a9bd1ba088369c5abc96aea2d1d16a2" >>,
    << 3183, "6244676307f6c297484d49c63dd97d92", TRUE, "501ece7bb729e808", "4bde348f", "f8e88f309937f4a5b3d8573fe6eb1f4c" >>,
    << 3199, "fbc6517e82ffc3f93d2bf14d980f5dab", FALSE, "29718e87dbf36405", "67a427d6", "cd6289cd1055114ecf2c379f42a1f19a" >>,
    << 3205, "52ae3a345ddc12f2b3e6c40abf617917", TRUE, "e414a31d8e7914a", "6334cad8", "5793978924f6d42944091cbcf8f37195" >>,
    << 3210, "a7e9bb5ab218d7226e4284bd4e49104a", FALSE, "2e0174e8438487b2", "3f083264", "086dedf46dcde391d7361372d7f289de" >>,
    << 3215, "961335483c452cab787ac2fe7be32a13", TRUE, "58f3f2f821a38571", "a9c370fc", "89228140dc12ea12a75d5818eacc6e4f" >>,
    << 3220, "f4b7b65d8dc9880c4ff673f6607287bb", TRUE, "35fb46d057b3ea2e", "f0134d37", "d19b1c9d3bf132f0f78d87973e159b90" >>,
    << 3223, "1c78df8e620ee7004014d18ef27798c6", TRUE, "7de51ee9a3735e1c", "6ffdaff7", "fef9ca847f5d678d884989aa5f5208f3" >>,
    << 3224, "5ae64bacd46be2c05375af611e64bfd8", FALSE, "4242d9bba526221c", "6e11c393", "9b433bcaf582370d1dfc9ff81d54ad1e" >>,
    << 3225, "9daf67350f1eae71e9943f4b061996c4", FALSE, "8a79744f3ed24e0", "86dcdc91", "116630c08c3647b4e385d2a4c0b8a9a0" >>,
    << 3232, "4c7a40948b35d6ca0814181de42db744", FALSE, "408840010390b31b", "7c9a248c", "81322ba1899c2b505079b6d419e8b0c9" >>,
    << 3239, "dd08ef2e9dfbf4a27cf2ce8f0f9751ae", TRUE, "6be382e1cf0e41a4", "50220666", "a2a84bde2cc309af463ecd19d5d48d2e" >>,
    << 3241, "3a4ae71cd316cc8eb76b65fa0a217585", TRUE, "65a44441e27d7ae7", "9fb19bab", "3015ecfefa093eb2aa20f37b01edb39e" >>,
    << 3249, "01120152544acc7a0c0eac69e6ad0c1b", TRUE, "bb1701da9a49589", "88cf2939", "bc8c8623c80e9950f205105454733ba7" >>,
    << 3254, "e21c656ef92ccf22740b28bdf8b4f465", FALSE, "2aa42c16390b0c9b", "f5ef1d4c", "fa9905d78a0880b627346eeb385b31f7" >>,
    << 3259, "aa4ebd012cab70662124ca28b730fa2d", FALSE, "29a72ff47258a89e", "4747dce6", "561e06d03400a5b0dfa4e0e6209e5671" >>,
    << 3271, "79ba66a7a7461746313ea67df8dc1b56", FALSE, "4619f757276e4656", "20faff15", "d2ebdd798399f8ee3c4936efeac4f485" >>,
    << 3279, "83ed8fc4d9b38c9e41e31a7133fa47b9", FALSE, "11c22c1a7043ba9c", "acfc91ca", "ab1e034fc717f74aac4e0ec913fa1fa5" >>,
    << 3282, "121f48358701a01eb25509ef0331d867", TRUE, "6b7437416e025579", "d3eb7e76", "de6fb2896e5dc723f8a6c91c310f90b3" >>,
    << 3286, "25dfbd859b43d40134fafa7ab1d0aed5", TRUE, "571d722dee4805ac", "e6188d3a", "af81553cbf6f65d0964113dbd45240e2" >>,
    << 3295, "e78468b3c8120ed4a3db233869b9866a", FALSE, "1b8b8a86836f4e60", "27403235", "f94dfa47ef1f5e236199cc7cdb97b362" >>,
    << 3297, "7f0484dbaa788360767f9652511ef822", TRUE, "463e0bd3b3eeca9b", "2be09d0b", "613c810811e52bb3fb81715931e94ecf" >>,
    << 3306, "f678dc3cc5f55688fd5301c4c379f51f", TRUE, "79046700f5b21d16", "3f69cc47", "2bac55f1b2432002908ac827b74ba833" >>,
    << 3310, "60157625fcf627ee2a1e29648546f04c", TRUE, "3bedd7d38a531cd", "69fee2fe", "117c87cf9b9a876ad246e35aa572b49b" >>,
    << 3315, "d24140f2b952484fb3e8286ce4f8f14e", TRUE, "2c681fd855500775", "efe42f7e", "02228c496ec6ef5403ec316068b11572" >>,
    << 3317, "f77686eb0bb0a776a65ed2da6b09a4be", TRUE, "d68c181032c2e1", "3488e2d5", "46802a1a879bc71d921a6233d2962bfe" >>,
    << 3324, "09252d609c58558488fcec189aaea61c", TRUE, "c30c0f680df9ac6", "e3aac5f8", "3fc29ba47f53efca57d0259c3b082542" >>,
    << 3326, "32c8ea690e691c003ebc1da663ae4f2b", TRUE, "7364f3fc853b602d", "5b18dd70", "1c585651cfeb68410f61625dc9133e06" >>,
    << 3327, "3af4855a26e7675b6b40f94deb1856ba", FALSE, "5ac03db947bf9cc5", "708ee3e8", "a3b4bfcfbc8dec94d8f0c9f939232cef" >>,
    << 3330, "f8d2268b5d1991ea3d796e786728590a", FALSE, "570437d1747eb0d9", "2d42dad3", "26841631da1babaa06ff6bfe3022d9d4" >>,
    << 3331, "e4e00a95a858d0ba243d1c94b9d06cd6", FALSE, "53484909bce1d500", "7d78ce65", "40ef24ece6c5970372d641ddaff304aa" >>,
    << 3339, "490ca8299ad94e203669883d9f337e32", FALSE, "66ceaf7f00f77881", "fcdaa45d", "f87df95865267b2ceca7059a77b31d29" >>,
    << 3349, "cbc1be0398dc730239f18f4614b6a060", TRUE, "1535380a9bf6349", "810b050e", "a834c2cefdebcabdd7ad75d62cf60157" >>,
    << 3351, "2054a86a9c208941f1a00b775fe3d286", TRUE, "29e9dfbe77a802a1", "2152bcdd", "61b73001c35632814fdb15a036cbdd7b" >>,
    << 3355, "5c70f599154054d70f4e2af3f386a703", TRUE, "60b99ff98e2eb48a", "bb134964", "1de0edc41c3a60635b7e4bb3b0abab49" >>,
    << 3361, "b28c6b9a0cd30973c1d62a5c793c1171", TRUE, "4c4c24b496e8c6df", "581d97b1", "dc39c1479e55998fad968da5b9aa0fb8" >>,
    << 3362, "eb805f459ede2f95c67e9c3171c0a8f8", TRUE, "6cc3572544c87520", "50170664", "b5f6bd180ae2a6be99a49bb1f8c5a1d8" >>,
    << 3364, "23d4781972ac558aeafe8e2321476b27", FALSE, "28d65f16ddce188e", "54e0efa9", "0d0e03cb6b29c8ff41625a021fa34713" >>,
    << 3369, "c9eb2c0fd25a914e9c41569386396c24", FALSE, "74d24bbc71750b06", "8b5c21e0", "e804cf3c0b1ae085bbf1988d6260d132" >>,
    << 3371, "d8ff54f0bd53320c9ac6f28dfe2601ef", TRUE, "72ecdd9b42f4ab1", "3fd8089b", "04174f351df079b9d717f612384d6ce2" >>,
    << 3376, "4bb029e722c6f7ee136f7151cd79cbef", TRUE, "6c641551c51f8b58", "83160571", "175b62df8f08b327224d710d1ab71f13" >>,
    << 3379, "e0fb0f1e5316568d813ebb2c00c095dd", FALSE, "69ab0e9bfb40f0bd", "81d72f7f", "7f56570502cf3ae55f17d68128cef040" >>,
    << 3380, "f1d6b978598b5118824abe1b5cbde090", TRUE, "57024d64b02863b9", "feb433a2", "5d22bb59db99b2a3d8d28e5943054374" >>,
    << 3381, "26e6ab57e7e2805e7d5715c4612a8df8", TRUE, "3509962a4a3f1e7c", "bc4cbce4", "390763d96676b8479090c34fea875758" >>,
    << 3382, "f2e62e7d15f7274abd02ea9000e60558", TRUE, "4388ffddf6dbb61f", "3ff25454", "d3427a57d6d661bbd922ca629e7dbcaa" >>,
    << 3385, "956de7cd9d64385949ee3c46779e08c2", TRUE, "f0d5e131b5cb4a6", "64a51d8e", "ccb51103e4f9c3b2f4b47af3f49ea043" >>,
    << 3390, "6df222f23f867820ccf7064cfa4f2288", TRUE, "749eeded041b17dd", "e7a4117f", "0f2320cbf1e642f266fe94f7c9b3fa5c" >>,
    << 3391, "6ba31e231ccb8a3aa44b6eb228fdad68", TRUE, "73699d1acaef77cc", "a0dba930", "b9322ed304a7fdb8ef8e8b16fe15156a" >>,
    << 3403, "ceeec12bd55b643ec13d41771b398f6a", TRUE, "12e005e43acd5624", "663acba8", "2ed4e42878d023a91b818e0ca5337963" >>,
    << 3418, "560235d69f939fffb1f05611f1255954", FALSE, "1dcd8dcdc0b95bb7", "80d405a9", "a42c804ce409aceb64ac280ab704aed6" >>,
    << 3429, "2c363951422039cc6a9be055e6298abe", FALSE, "8d508aed42b4072", "612b618a", "0883ac61c23822c9a364404cba5b56e3" >>,
    << 3431, "763eb0a981f2269d2c742c3d7f9c7232", TRUE, "67b45e452785a9", "66521d06", "efe49cc5f7d77115d9a80d2a1bdce921" >>,
    << 3437, "e79ae3a48cf657759bb44a600e704202", FALSE, "4e68ab6ecf92694c", "f2f4fc8d", "96aca9a92a48258788a1ec4b7f3a571f" >>,
    << 3439, "3fa5c38265df1098357d151d210d5011", FALSE, "781eea76e0f97d1d", "2f15724f", "85d8adaa64ae3a539c93d907001ae21f" >>,
    << 3466, "7a9f8705c4f46290f800f8721ceb9236", TRUE, "e4f9b614ceb5405", "1ddacec5", "c1cba53161a7274eb6cbbb5cef81cb01" >>,
    << 3467, "5842a1cec65e2be31ad8a5aabd3dac81", TRUE, "46b62e3a49b05704", "da6e6860", "a8de25a92c62f4b840b95b1e6208fcd3" >>,
    << 3469, "d08e6317b379d2d11ffe827898501f10", FALSE, "1d57ec8738974f69", "fe15b87b", "507ef620d81aa600750103047eb93d92" >>,
    << 3505, "9fd2a88befa9bd67e947b625ab6eea70", TRUE, "1d5022940f016233", "3e22976d", "843f2113c5c2e297d79b690ed1d0a68f" >>,
    << 3518, "526a9e83461b9f1a7baec59fda4a0617", FALSE, "3320604b972838fb", "984cd70e", "254e5b1e0a9d34f8ab273db297ded758" >>,
    << 3521, "dfe3e811e1f2b674ecced30bac62af09", TRUE, "1c82022154218dbd", "872941b7", "da640d145cb851f05d7ceccbf5028d0f" >>,
    << 3525, "aac1c10be362051426d442d404b5c911", FALSE, "269167d3c1831fa7", "4f1594ee", "ada581f7583501201bb190dd63dde047" >>,
    << 3528, "de66d78a552f59c06ac643367995db1b", FALSE, "5eb4279262890104", "b656b86c", "d7949bf3c346e5bcd70af8be07b6b625" >>,
    << 3529, "75f1d2bca4a212aaeeccf162f1ca4524", FALSE, "90b547f08b64833", "fbe8f86c", "d816a607c94bae21f40f74200f0bf5ec" >>,
    << 3548, "ae240a1cec581a5a937dd428340d57e3", TRUE, "7d775515fce49083", "456f3d9a", "f634a12862026c6085b360faa311d903" >>,
    << 3550, "4cd7e13324d1706824cc3784dc9b6bba", FALSE, "28a8cdda287231e5", "79ff5d31", "57ca40346cdffb7d20dde5b71e1b5716" >>,
    << 3551, "0fd0052f91cc68db445d1a570263c813", TRUE, "51c4e1c8c6860e54", "39b6c9e1", "d9d731c0d46bbf81217341f3b87f19e9" >>,
    << 3552, "835feb15761942e45840cb7e3e290032", FALSE, "490b0e81167eff32", "bb8bdeb5", "94ac631a6e72c64c74cc68b2c5354a60" >>,
    << 3553, "cd24d78dff660f328db4c28057d4f08d", FALSE, "39bcddca61e27b9e", "e7243b0c", "bce7129089e9b691dc817bf4e845b2d2" >>,
    << 3556, "46836233e71410cdbe61f6c1fa4bd264", TRUE, "7eefdbc460e0ab9f", "12eab2c2", "4b64c6d16c1615fef33616774be38877" >>,
    << 3557, "7ecedbf51ea6953b7e139912fdd66fc7", TRUE, "30da10073e3c254", "c63f7e53", "5daa1daed5e32c6fa2df2cbbddb83af1" >>,
    << 3558, "b8a6db3c6c1de96fc6729ac3d5ea0ea5", TRUE, "6a3bac2b32b38893", "bfbbf53d", "66b3fcbc3af5496e2583a459c10d476c" >>,
    << 3559, "6fbf65dab197e9fbdd6da1c7569390bf", FALSE, "74b70ac2cf6a64c8", "bdc5d176", "147f325e627dd5462849d6f8af7f231c" >>,
    << 3572, "444ae85a744ca794b0459993fed8622d", TRUE, "350ba37285abb70e", "86a0e4b7", "27d5d8d005a39135ed7c23ba1022f878" >>,
    << 3573, "0d4cdc28a3d76dc5450a8745230e31bb", FALSE, "228c372e03dd18c9", "12817bd3", "35a7b54a9c9fac438ec83183c4ab5fdf" >>,
    << 3574, "48a293eb40e78f4b5c0dec0c0fffba4f", FALSE, "737a4db93fb7bdd8", "35109bd0", "c992bd1329846d12afc14904d345b060" >>,
    << 3581, "f721886fc2edf96ad1fe495374f59f93", FALSE, "205db53a7cc11df1", "d5e78dc", "67bf090e1c469547819a80b475d1b3af" >>,
    << 3586, "ecd848d33e1b64cd213c79591e3dac5d", TRUE, "3329c52f62a45468", "ed8d94fd", "9708147eb529da3b4bb600f201540728" >>,
    << 3590, "022da81081efc6d2c82b4cb8adfe0423", TRUE, "41034bc0e8b8cbf0", "1c4c4aee", "23304077b75e2356838da5179a5e3a59" >>,
    << 3592, "96849847d73d6761b00673444d9f2cff", FALSE, "2facfc0caf6a2c05", "813dd1af", "568917ec591c017547cca04289e705cf" >>,
    << 3593, "c2fcfe44dd64edb6c748bc1d3c4ceda5", FALSE, "2dc28b5d468db011", "24052965", "e11ca96257343c34ad11094ce420620e" >>,
    << 3599, "8db8e864e8e8d19b67000bd210275d37", FALSE, "1e4a6b4dc5c77087", "d5d1adcd", "31168f72190a7ed9abb68b0cd5a5249c" >>,
    << 3603, "d805c9c93de656df14fd8419a495372d", TRUE, "2d44eee0af788e63", "fcc64a7c", "0c0f36ad9ee16a2646ce96fbb490f41e" >>,
    << 3609, "d28ff926b0888b5e9055a105c7542430", FALSE, "5c7e63533c4e198b", "ae32211e", "f2e7dcd468a9739e64577684f0f90097" >>,
    << 3626, "476639312234c6996bca5c09fd5a12be", FALSE, "7f6ae79532d029f4", "b4673414", "8405e64ea1fb8f886e13861745f8e2c4" >>,
    << 3628, "85521d675b3fe78d5ff33cef9e875787", FALSE, "77b6d56052faf2cb", "8a361114", "7144b152a57b114ea70441095e9f65bf" >>,
    << 3633, "85495d8cb2ea57b5e9c2ee799b583201", TRUE, "7ff68cfcaf274f5b", "80e63a7e", "2d48a5e09bec401d395ce4da22ff8789" >>,
    << 3642, "fab84b5348d8d875145ea992221a587c", FALSE, "7f882485ef95ef30", "42d50e77", "061db5006dd1710a22cccfea38b4d0d7" >>,
    << 3651, "f426ebdf81e5ce68a340719e5b79df1e", TRUE, "78822f456a45a98c", "b7480a2e", "b0ab2d491baad242803ab96e352a60a2" >>,
    << 3661, "9458f680ccb83337700d5891552c5cf6", TRUE, "2fe1e99248835b59", "8e660385", "eef516c400116c1c90b13c0e4e632c4b" >>,
    << 3663, "977ea56f7ed7d94006889e232faf1755", TRUE, "5cf217a842115945", "828f9d75", "7d1a219bb8ee680518cdfb62d0aee019" >>,
    << 3667, "39bcd08253745bdbdfc62865595ad512", FALSE, "229e502af50540f8", "5569a785", "88f4e2bed80aa8f72773bd454db0aa44" >>,
    << 3676, "8f6f2cf528dc3882bdea211b950c2633", FALSE, "2f94fffda4ac823", "258ff002", "670ac6662f15d1ef2b09af9cbd63b6c0" >>,
    << 3681, "8aa6c7bf44df7087c592e2cc0187b6d6", FALSE, "3499ac8c3c432793", "cd70c40d", "73f56a9a53bb00dcb4ad3e7b8f9badd0" >>,
    << 3691, "8d3ffc0209dd7703edd83ae72a4bd718", FALSE, "9b3cecf57604625", "491aacd4", "33cdc9983aa3a90eeaba25646f08bcbe" >>,
    << 3699, "60dc94f0eabedb82518754711bbdd283", FALSE, "773f0bf24fbca03c", "23c5285e", "14142816734299711b936134a44ac363" >>,
    << 3712, "138b294efc621c946a9e70dd8c90cc0b", TRUE, "1f9e9309170ee57e", "193780a5", "a0b585a7804164123245ff922e7622f0" >>,
    << 3715, "5a6473532f00593eda9f9b50262cbc17", TRUE, "a17b343d6cf10c6", "764bf9a2", "902a72cbd0a76bf385a39d921b20d245" >>,
    << 3722, "82e6d2b80da22d1c0547f70198800b97", FALSE, "4649aaddbc461428", "cad2fa54", "f4460bd89fd613dd2fd5b2281e180b35" >>,
    << 3723, "d8a2ecd0a064a619999b52f45d8f84a0", FALSE, "5ab9f7d6a2f075f8", "bedfc871", "a78b3828abd320bedd0d3c1d3b2106e3" >>,
    << 3730, "a53e1989eeca8ca343187b795eb23616", TRUE, "5a54b0d722fac430", "d4c71d5", "9435b10857e8a7dde4a7ae271826ae60" >>,
    << 3733, "9e0bc7505283019d29f2ae084ddce391", TRUE, "72fb55fca627fcdc", "44853776", "47acf23580796d06a2750b70960d4d09" >>,
    << 3735, "6fe0fad134fbbfddd766ea8639787829", TRUE, "5032108e078baf8b", "53e8ebf8", "44fe7ad8bec5510020ad1dc82c076295" >>,
    << 3738, "f0be21e552f85f4ce0755b01078a6190", TRUE, "74b7d5debd284585", "4210218b", "74620b83e03548a1a6d630ac5ffb3955" >>,
    << 3739, "7c782168672e307835848a51f2a41c7a", FALSE, "61228d2a0b50b067", "765e2e5b", "0853a311a3c1af22d356e5332192919f" >>,
    << 3740, "0ab2cb46bff48e28ebce7334a362a5e7", TRUE, "59df67e032aa0760", "73993a3d", "9efe7dd56d60e19f0f1eae7e0360e327" >>,
    << 3751, "06d21308924f187a425819d1ab298f03", FALSE, "59e72d4f2319fbd", "26a7a500", "1d1ef2feb3f5c50bb3dfad2fe5f86678" >>,
    << 3754, "ced5c5850bbd4a8b35d9de4ee7c5e515", FALSE, "7b8f056420e011c8", "14eec1a0", "a2c048efe2697756f4d2655ed72ff48c" >>,
    << 3757, "3c315b2a94bfd96d52a0731d580ec487", FALSE, "68207409b37dfb13", "992d3f09", "4f40b2ad30f9e9243d0bae039064265f" >>,
    << 3766, "89c67d315200e4c8944042d014cb5558", FALSE, "1c9ae40a425b5e31", "b122f46e", "5cf85af1bbe4e22150fe8dd8498be12d" >>,
    << 3769, "20424b3d722e20230d5ca881851eaa35", TRUE, "5420569ea7376483", "631067bb", "b6cc80bbe9da5358b770de16b4fb7bd5" >>,
    << 3774, "987ff6ca7fa2f3115e41cdb2ed3ba7ce", FALSE, "2b52077c5e2176e2", "540f6073", "74fd6629a47c6c9833b48d7eba61100c" >>,
    << 3788, "4bf200cf422cd3d766f907537be5a8dc", FALSE, "56469fac8f731932", "e7baa128", "7256dfaf7f8dd4b694e0a50ff444c72a" >>,
    << 3794, "dc46a178af98af0addf058bdde85cdfa", FALSE, "30d76541374019ea", "dae170ed", "180d1d4b088c1bb5cb9fc28ba71e39c8" >>,
    << 3803, "d1d1b3c884a4015767ab54efa5d89ad5", FALSE, "3c60288c76734bca", "62156755", "bb3bf816d6801f84dbc6f2edc847cd86" >>,
    << 3813, "116b4d9512109c77441544192b3843e6", TRUE, "6b36127d3fb66b80", "9ee6bcd9", "4e1b38ab70baa645c3b4143110dec650" >>,
    << 3816, "17ccf06e034dd70b72ed06abc84a9d73", TRUE, "499aae1be8dd9f6b", "21a00705", "f0d2c8c25054624cd554e301547dd25e" >>,
    << 3821, "78f183af1ba47ec95c7328324a09db82", FALSE, "77474521ded09dd", "a2c25c9d", "6f699e7f0e6ae501cfd009211f4a9a6c" >>,
    << 3825, "5e0532a4ad4d2b013b14b73389b0dee4", FALSE, "509ab49d05517c8a", "a8322501", "97f701d8fe02166ee3d778e0f4e04e8a" >>,
    << 3828, "3f44c4107d8d4d4546e3b655acb098cf", TRUE, "33fd3cd21f7a16e", "51c77bf2", "28f1ee2f6791983f36fad43641e76938" >>,
    << 3831, "f9dfa654d1e349b528eb2347995c0275", TRUE, "428f629e9bb756ee", "b23a7dd7", "f62f8341ae4cd45ba351e51d53fdf653" >>,
    << 3835, "d139da64e73fac6edf09feeaa8a9640f", TRUE, "730cf2eece286212", "ba93ba7e", "73114c07be7d389da5e197102069c1ac" >>,
    << 3859, "05494e1daa92ccecc412b072e24f0e2e", TRUE, "3e86419e1c458d5c", "d20c97cb", "6640966f8aeb6cc6a1b14bda97123a34" >>,
    << 3865, "f143e62aa2bd685907bcc9c1b3e116f3", TRUE, "60a699823abada2a", "3c4f29e", "5db8c2673f42e37357906be16beeb535" >>,
    << 3866, "d0fc19b319efdf3ae0bdc519a10548f7", FALSE, "64d33e849cc754ef", "519f684c", "aecd9e566afca0ffa839bf0e37bc45e8" >>,
    << 3884, "baec112d8ca84b4c8323b10c77ce6af0", FALSE, "1db1ebf1e21e8e35", "118f2708", "0a8b125a355fbb0f3a37d7b991a13e8e" >>,
    << 3886, "fc9836adfaf9a1c5e065a8a79d574462", FALSE, "4e849907ff30ed7", "f7404a9e", "3bd74d57286f4c88ec7d40359afc5ba5" >>,
    << 3894, "4d53badc9c7a0203721c3a3258bec032", FALSE, "6b088ad9b4be0c48", "a4109323", "9495a5f0704abe5e2100c34ff4ff2bc4" >>,
    << 3896, "e07543098040c2ee15f8a027fb471e11", FALSE, "1acffb5804116256", "65bccf44", "9ab20c91a334d106d7e092326b30ba35" >>,
    << 3897, "822252b84b04aa13071045643a182aea", TRUE, "53fea50d4b86083d", "a2fd3a5f", "ecd7567e6ed0421f0f16250ad8128834" >>,
    << 3900, "7527283069a3fb3bd096cdd5bbdcb2ba", FALSE, "68de62daefed88aa", "9da21551", "b4ffc46d4b56b66a5aee6d4828948703" >>,
    << 3902, "16fe6dcb6641ebbfb133d5a590c801fa", TRUE, "6b858b4a3beaf3d6", "ae1d1797", "fe9629a7394dd3687a85caa165a780ce" >>,
    << 3903, "4bac3d7c556de4d8295fea461d58d7ad", FALSE, "3c4a781ac3bff78f", "96bca61b", "41a280120b1d486725bfec3c31849843" >>,
    << 3911, "660c29e7b304ed188909e899ec48e76a", TRUE, "2eb53d604244b352", "18fd625e", "96217cdeb953d01e55570cfdd4f2ba88" >>,
    << 3922, "81bf6aafb1140ae5d1d95681c7bc121a", FALSE, "46287a6d41696c6a", "52ccfebb", "96bab31b13771274e34916ea82c77508" >>,
    << 3926, "a0b998ed56bca8319e6bf995d08433a6", FALSE, "48545f5169976c5f", "dbfbfbb7", "0d063c171c3f2c03f8af16cbf83b48ad" >>,
    << 3928, "04639ac0dd98dfdaa31ad2700107b411", TRUE, "8595cf540b5a084", "e5fc91e5", "7212e6e365e5b86fcf810a4808058d5b" >>,
    << 3935, "6fc59763feb96f53be3c49f39ceb4055", TRUE, "5342b0ceb043410", "e5124ded", "7490ea600db6abbbf979e03c155b64bf" >>,
    << 3937, "6039cab14f3579bdffe534e4c9c7b954", FALSE, "38d53dc18f562674", "accc122d", "28553a394080c2851bca2188eb789746" >>,
    << 3941, "31deefae56cea428591532c3064c25c7", FALSE, "7bdb9bc4653dfc6f", "ec85f621", "9a73fda6632c69557d24f3cceb6c19e6" >>,
    << 3967, "a151c334b0c4c4307c763ce3f8754826", FALSE, "20b0ec5bedaf2e7b", "5ff7954a", "acda4a19d2f999e3689330cb5e740281" >>,
    << 3968, "29d00ee34078b2ddd54957b91c846a9b", TRUE, "4f1c975493b65d27", "1c45fbe9", "ecb4de15f0ce1f0f4e71b335ca0ad579" >>,
    << 3970, "6a99fee443d34166dddecd1edba15bf0", FALSE, "218fd23ce80ffae", "dd6d4392", "4addbfcf903fbb0e8965de5bad4530c3" >>,
    << 3971, "f91ecd3c3984559a0a94d041dccf6da2", FALSE, "4d402c9720e3294c", "3216dc0f", "d72d70d5f51cc00995d85dbf75190ed8" >>,
    << 3972, "810198319f9dc328fdd2c243b8bcbe3f", TRUE, "297f4eee35c92fb2", "a385c4f3", "8c80956aacff4d7a81df7fbd8e19d1e9" >>,
    << 3973, "ae5854b2bb5f0b27074c0838432c9619", FALSE, "7c18552ea7429f27", "8efc3586", "c91a77caa9b9ab153f9cb3b55a52a1d6" >>,
    << 3986, "43b6602d8fe27af5680ff733e7062d3c", FALSE, "71289556cac6740b", "426b563d", "f54dfc8d6f90e72e71be61545feafb5f" >>,
    << 3990, "49c47fa862d923ba907b3e733188d366", FALSE, "19e81d9104548c", "6bd804cb", "1e4d56d901c87c79107e7559d751cc88" >>,
    << 4001, "fe69dddeab4a96d44538b08e26d3e74c", TRUE, "287315ef754ad19b", "8ae1aa5b", "03fd6f25e065de0cc83e5f2e3918e2a3" >>,
    << 4005, "c445fc0c8517220d6cffe3a5a2d64cad", FALSE, "14599facb4749b17", "fde6532", "5e5481d3e6b4ea3e01084e8c243f8275" >>,
    << 4007, "5c93e357e4be8e710117dd8f1b955b78", TRUE, "2bd609c522a26bcd", "4b3c0d1f", "29c3f5f18676efcfc9726931f665f81c" >>,
    << 4011, "b2d6c08f6164a3640a14c45a926b7a75", FALSE, "746ebd76ac6d1eca", "ccd0a9f0", "72d89d76fed6799cb6362dae59086672" >>,
    << 4018, "830287371ee7802bad9df0924a308e2e", TRUE, "6fa84189d8db605e", "7aa2bcee", "1e1ef73e17a9ae91a58ea7ee6804d70e" >>,
    << 4019, "14cc4744a03ec95ee545060190d7b3b6", TRUE, "42ee30afad2d3392", "6943789e", "690068bf5a30534c82c3661113a8b2f7" >>,
    << 4032, "273d9e949c9aee9cbccea47cb1e4c9a7", TRUE, "7dbda9bd947593b7", "851f37e7", "1310d515b2998d360dff683e2e44ec89" >>,
    << 4057, "a5248d28b6b2ff8ff233acc167126543", TRUE, "5dfaf950b138574f", "a38cc12a", "a78566a7ec8ca65b6183bf3c2f21c2ff" >>,
    << 4058, "7a0940f13924264317acf1ec31ef809d", TRUE, "59c20f2c88bf75cf", "47f72822", "a36cf88065e6f518338a0e1c633bf258" >>,
    << 4079, "e43e9b2708391fbae2e32b35a9da0fba", TRUE, "59848f6f944d58e4", "85d6ba5a", "47dc13f8816aea0de39fae272cdbbab2" >>,
    << 4089, "574b55f264f8e2baf3f043833535d7a1", TRUE, "3115e00dfca4722e", "9f8662f0", "29d447fa5b96010b0b41ebbaa13a20fe" >>,
    << 4092, "71e126027baea8be90bb16e7655d2490", FALSE, "51fc5087eca8436a", "aee16774", "39e9edeb8dbcc5ca31800fe152ee7902" >>,
    << 4104, "4bae2b5d239906d9f216c17ea41ff641", TRUE, "57dad8bd55aa58c5", "a41555a", "e1b794308af0be4d64a50ea674f263dc" >>,
    << 4105, "d814fd85ea87ce15964c31201f2a70d8", TRUE, "242ba2b9d162bd3f", "8c7d6d27", "7a97b6ed883bd9f1a278d3b66e413cb1" >>,
    << 4108, "61671cac086b4074058e180f6a1d8971", FALSE, "df9ee6024a943d2", "8ba8f02d", "ad3a9d61dd9d1e3cfb10a60c23def583" >>,
    << 4111, "9056bb9fb2896556766fe990a6db2997", FALSE, "305221ad8fe80839", "5bf136ba", "9612ecbcc5deb94f86cb7321742e56b3" >>,
    << 4115, "92e89c23fcf77c609fcd5b5e1cd236a3", TRUE, "350ef40421dcce44", "20d506d1", "887bc3351cb41d7a4b7a27e9652c482d" >>,
    << 4125, "de6ae3c382040452fbe8d991a239d001", TRUE, "64a54709c233e378", "799ba838", "e7eb009a0331cbebfffc540e6b86fe9f" >>,
    << 4131, "1d3638a85076902a18b1d0563942d5e6", TRUE, "36072837f6a35d4a", "38dbef03", "4f3a02683847caf5686c467958eea205" >>,
    << 4144, "f3710b01bc2fbc5de931d718ca6633e8", FALSE, "717c7119f82f6b8d", "f90bf4e9", "81e4bd89e6e51dadfa2ea523a9dedeab" >>,
    << 4147, "bc17808f71ef8af110d2d164f4f7e256", TRUE, "2fc942084302e7cf", "23a4942d", "3fce273892144cc48164b424eaa5de44" >>,
    << 4148, "72a8998b040875ea3bb0064d8978c11d", TRUE, "4ff154a9f4c02ab6", "25eb878c", "a887bc4b13eb3df23aa78784184a2471" >>,
    << 4153, "0e03056d117394921aabfd53adced73e", TRUE, "69b3b69c8e1ab9", "6769b9b3", "5a3ad707f831c91e85e7c6e28bc62fc4" >>,
    << 4154, "67118f0e199675bdbd8307a5b262c1ab", FALSE, "66af8bc8fef61010", "a4703e54", "f7ca81062b7515d28bb0a520d09804cf" >>,
    << 4155, "0c4f1660bb5f7fc4fb1fe2cf0a8edf0d", TRUE, "bb764c67313f2f3", "928c3a0a", "fe5fb4f106a18333ba006470d1e192fc" >>,
    << 4172, "9ab539b8cb95c62cae79fd2919d840c9", FALSE, "1962d5ee5537e1d1", "cc2d19b9", "8e6932dbee1cf8adc5aa7e1e98d48d86" >>,
    << 4184, "26056092c068b593771ad0f5dc2ea48f", TRUE, "5575a5b2154e0176", "b6c21879", "e1f58aafc2e115c54407f1331f845dfa" >>,
    << 4195, "73680cba2a15075c3f73eafc428b516c", TRUE, "243475818f2a0ce9", "a0bf7149", "dde0286eb6e3073d992f355afa38d5b4" >>,
    << 4222, "f01ce3be48b9434759611be6e262a25d", TRUE, "5751ab309d1b678b", "dd690458", "cba386a2d01b2649880d53ba38085e6b" >>,
    << 4225, "0c582209b132c3f5d88420d77c78b941", FALSE, "7243009a887bc8e6", "b77b543", "b5d382f3e5c8bfc009708d051244c145" >>,
    << 4233, "e36d94715bf25892c0c35867dc37a126", FALSE, "58ef4d37414c7dcd", "74046caa", "81ec9fc4c1f0d954d6c9b0a11e7a1b38" >>,
    << 4238, "5bb58e8d5f0a4d3632bc1edce6343d8c", FALSE, "56b5155397bf20ae", "1cfc4430", "b6ae4055688e556f55fda96a2b8bfe2f" >>,
    << 4251, "147e871612cb1f69deca78fc5faa823a", FALSE, "5d373754170ff77", "f8cb43a2", "8f16deae526be747facba29335ce5799" >>,
    << 4252, "37416e176e96c5e2a3fcd58847496d30", FALSE, "7b60ec0d5acec417", "681cd0dc", "b8bcb22e8c2e24e7c112abb1b4e2487e" >>,
    << 4263, "35b966d46db3f937adec587eb1000c65", FALSE, "86ad6f01b9c6cb3", "dda4c8bf", "59649b81e471d3c16b2e469adf8a4cc5" >>,
    << 4269, "a71b3131205368b116d0510e50c2b583", FALSE, "3fcf05c67127fb87", "fb1c3ce9", "2046a2c41a90a1d997a2116fc8675d7a" >>,
    << 4290, "1915b630446b78c0d2ecebfb3cd84e3b", TRUE, "7ffa44b80bdf7544", "96265175", "c9333f6bfb52b055f91dd538eeba7c39" >>,
    << 4294, "fbff39ab92ba9bfdc2e1096d7262cfb3", TRUE, "139ffc08042a81c8", "2a15a57f", "a1de99cc8a3610c24622d679114d48f2" >>,
    << 4295, "7c60e9954e0013e4051a31ca63e8177e", TRUE, "1168f4f0d0d180a2", "bf1f80a8", "487cbec2dfb516e5408c466bbb440047" >>,
    << 4296, "39edbcd83cfffc30710a93c4df0996e2", FALSE, "5cd2a83d079d3501", "8d582cd6", "b33a7bd85172f1f5293fa9e1e9155d8a" >>,
    << 4301, "fc598aefba638f74a2351085ab62d76d", TRUE, "61096ee8f8156857", "74ce2091", "e4fa6d6daead32d9bbbbf358cef3c041" >>,
    << 4302, "277d2b58012e09db88202e57894a207f", TRUE, "6d23c96171ac9382", "3a3da42a", "828f018f44b1cf4a5606e19083f7f790" >>,
    << 4310, "ccb44c82cef38c92ecc7e644bd033807", TRUE, "558df219c6027985", "7059729f", "886c30ab6233bacafd9be0615f128059" >>,
    << 4312, "1e14df0ea02468d37a038881f6f9afd8", TRUE, "708a01d31cb92c8b", "72e98ec0", "98e0deb42a1035f1b3815c222d556764" >>,
    << 4323, "2f5f7f23642b51270d3c134b15d0e72e", TRUE, "6b98b919eb24c339", "d1e576df", "3981767a289d8074e8bc6f0395ac2d56" >>,
    << 4328, "3488aebcbe6473f9d8ae7353ea39e334", FALSE, "12457e8066725cfc", "cde13882", "d0b0c631fb2eb915244abdf952256ec5" >>,
    << 4340, "b1634e37c7801798580f59ecdb2ee55e", FALSE, "c9d5d5176e46fa7", "6a4ff6b", "712221ec19e3b27b0d5de89fb59465e0" >>,
    << 4342, "e9d748984dc1e508c0c68dc786e073e9", TRUE, "4bb6245f12271545", "d218273", "23825e4f7ba239a43050552eb56ce673" >>,
    << 4360, "a22a08390d8f71198f80cfae3431e7b7", FALSE, "40742f99c01f3b59", "2d407d74", "66fcffac008fa260ed6f58083853a284" >>,
    << 4367, "c9ce1d5662c8204ce4816ecffd7b0680", TRUE, "1082b2cb2370416a", "a4a630e8", "929dd10879073e7f89d2a8c0089212b4" >>,
    << 4375, "3d6af72005f6f426b889119c5da66cc6", FALSE, "3bb469742f6dd814", "2ef3b69b", "f18ef6218010ca6412c8578515843e01" >>,
    << 4387, "d87270fd7046e64e0279f2281b8c7780", TRUE, "24e825e7ecfe55d", "192c677f", "f2c04bc775358d98748287970951bf6d" >>,
    << 4396, "b4dac440ca42d9e742b9ac156938d7b4", TRUE, "49e3dcc6b63bbbd7", "2189f4d9", "466c37a76927d862002b670da04e1ad3" >>,
    << 4397, "6906e04970da196263de9fd8daf73ab6", TRUE, "63a6a86c62845b86", "b125cd05", "94140dc090933bd4230b47e9f2bde45d" >>,
    << 4408, "c0ba134e8eb79cb9bda3803230e684f9", TRUE, "158456bfbd10e07a", "b35624c2", "7b7641e5b851dbf3a9725e2f097dfd97" >>,
    << 4413, "adca2a5773a4420a274811edc0ad01ff", FALSE, "547e790d7ab3100c", "737ae7a3", "c84ccd6a3ed8667e57744ebae46ff268" >>,
    << 4417, "182a5f9e493eabb6f118e20d95f7ee24", TRUE, "11930af2b1c1c18c", "6d28ec8a", "77c8351f782fd828bc52b0510bac7f53" >>,
    << 4440, "a1b92a1a3fbf6a269abe03a79bd4b448", TRUE, "18d0e859a907f7e1", "1b8db403", "f0b747323a13b259cf7f7e05688d355d" >>,
    << 4453, "1766f13d9ea504c6e91ffb8d91ccf2ba", TRUE, "45dd02f0bb5df4d9", "44f17de0", "fe01e88833e39398b4045803afd4e775" >>,
    << 4465, "3c4cae5443f8fc72a75fd15c5595cf4a", FALSE, "40884f6dfe01348c", "f099a138", "d50138c15854083bc537de318d9995ab" >>,
    << 4467, "d524d042da22b625df8735f969403387", FALSE, "4d98be2e625e0fe1", "a3a6043c", "df6e24e2f80d3d38b0bb4a7875259aba" >>,
    << 4474, "be0a4bb522248166c487812f3d3d2daa", TRUE, "25e56f1f71f54458", "2cd270a6", "dc349c5d3f6b979dc8b5513c6720e1ca" >>,
    << 4486, "0cb1ebd466806b39219ef669feceb328", TRUE, "66d8abebfef4d76e", "4302199e", "5fd93d0f96b00e74a58beaa4ec769b49" >>,
    << 4489, "b341e7ea3073a7326bab11a27576234f", TRUE, "6bf2e1d21ae39bda", "fc5e4a1b", "e7fd0a416dc1bce0afb0b31c45cb55f5" >>,
    << 4506, "861338c5ac1a92e72b5dd80361f2117e", TRUE, "371cac207eda4599", "4f15c152", "d385870c589eb99f1030d68db53818b4" >>,
    << 4509, "9f0bb48f17615d273d68ab627b7ca6ac", FALSE, "4dada0424e4522d8", "964f0091", "c69f69b414729a50191924a8ce21f541" >>,
    << 4512, "bb6f61dc03df007b1e9fec709324c054", TRUE, "50e11caddc27c014", "5831f2cb", "edfca5744ecebfbd998435ba6cc86b8c" >>,
    << 4520, "a1e87afb83c58e0c735bf0bb5c31e47c", FALSE, "3ed0058ab65238b8", "e2d509ca", "99c2a1fffcac306fa5962d356eeef394" >>,
    << 4524, "a57e1b508ee846375a618b68d32931a8", TRUE, "5347b977550168ee", "df322f37", "1c64b20748273079631d6bb03d68b8f7" >>,
    << 4528, "e9f84319766486e76d2e8f5a3f2d59e1", FALSE, "7b981c40267ab004", "c2ad90bc", "6dd784e1d790b100c5544aa75d29568c" >>,
    << 4552, "0f019304a7569405b8f6771291a8ea26", FALSE, "e67eaab83d2bb13", "fb1c3aaa", "5183fe19c706b5f286e9e602f20f8d2b" >>,
    << 4562, "121284fc4a65e22dab642bd568f72c71", TRUE, "ae6c6ebdd7f99b1", "292af590", "066ed797b8185f4cd438672d6c6ca283" >>,
    << 4567, "3593bc90682aa2f6c8d993b1233dfe47", TRUE, "502722642f4b2ae7", "4479d435", "2b9ff09b4c811ff10f4641455c99bbb1" >>,
    << 4575, "1cdb3678d594420b9867a21b40107f65", TRUE, "5d5cee8468138e73", "f7098dda", "ed4f6bc22e54ced6e8baf3e8c895f595" >>,
    << 4583, "6a4f174730abf84079c23548f0a6dda5", TRUE, "61f15b161935d017", "4b81fe56", "dac30b46825026c49e4584290f167dfc" >>,
    << 4586, "2bf2eac4bddb2d70d030844c571f6fc9", FALSE, "607ba051f78aaf02", "4dbd145c", "f0b01f0525a55a4b91552c638fc771a9" >>,
    << 4592, "0889325d4cb04d9a7b31df1144df9b04", FALSE, "6858298a9bf6a65a", "5cba701b", "b622f23846c2fc4bade700010bee7f6f" >>,
    << 4601, "02abc37bac7343d8c3751867bd2b5d0c", FALSE, "67bdbfaba29be325", "4f8708b9", "c721e74c608f21205a973e71ae414372" >>,
    << 4602, "d2fe9d293fd68467bfdb2282e3928ac3", FALSE, "16488a711fa14ebf", "5351b5ce", "4561c63410ff038b14c3fefbe452ad83" >>,
    << 4611, "e7143d9d68b79cfe88575a39c9ad98f2", FALSE, "363b64821066de10", "c62c088b", "6a42de76c0ca5491244fe9748a90c953" >>,
    << 4615, "e66186e7cab60efa7f48b852a7f69646", TRUE, "45c2439c1a093027", "6e8b3ae4", "dbe62294d91a9b718213d79079842084" >>,
    << 4622, "ea3cdf5ad1f20e53a54f96144ac1fea3", FALSE, "14438767aa84c561", "62929186", "d8f24e264beea8dce0e088cf2075c3ed" >>,
    << 4627, "6a500b7fcbe7f4ea92be1debd43f4993", TRUE, "793d5ebd9364bfc7", "c7801504", "e830f59faa3b1236e186bf860c9dba85" >>,
    << 4641, "119a92dce87498fc9973a5a2302544f5", TRUE, "1180f843b98ca116", "ffe0c02e", "a4e627dafba8cdad608b1fd8f591c753" >>,
    << 4644, "40ad29c81606d57c2f9e70c535212c94", FALSE, "39071b7b30d81d3", "28fceb9d", "bddbb52b2df85fe4826379478302adc5" >>,
    << 4657, "13a4f467288511245043d89baadb929d", FALSE, "1b66550f6f5a9833", "f247e46c", "9fcbd5b3d282f71a64b3e84ebfc71eb4" >>,
    << 4660, "5f71977bdede6d24ff647c2f548dab80", TRUE, "7031066e51e0cd8e", "e10c99ba", "fe5acdd2c00fbb2bac892e6be6843e89" >>,
    << 4673, "7cfb4b1f6e183f1331927719e73fc22e", TRUE, "3fbe147ab6f49ca6", "dce2c060", "464273f06cb9c3ed19a21f29a4a6826a" >>,
    << 4677, "617ef321350b0a8556fe2430c223df6b", FALSE, "50ddc8db0155bf09", "f6e67b9b", "3c69d4b7bcb617639ad8931a94aff8c9" >>,
    << 4686, "72b1fb6417687109e56680abb4133ecf", FALSE, "5760257d6490d122", "c65472c3", "34c1553c9e8b191ce13aa9232fa4d6e6" >>,
    << 4695, "d9bc833a4c0a8b1cdfa6cd6a096d654e", TRUE, "52fd518405700641", "6a422d23", "73ed803851ba7b5921e18b462473485c" >>,
    << 4719, "fa9810ab76acb36b58f81605a0d81752", TRUE, "3747876fe44d1662", "ef56987d", "a8ad34204176d9b8f0abd7c4f727f910" >>,
    << 4723, "d80f63290c995d774505a493046440af", FALSE, "2af9122bb2f5a1d0", "a98a8f83", "39de448476fe2bea939780d7c8ce7be8" >>,
    << 4728, "31771f84494a059ba4c0b92bb1047107", TRUE, "35118b5bfa42a6b0", "8b30eb2f", "1fd235796ae9d48b241a338fe4a11e83" >>,
    << 4731, "37560dc45050534b018ad1b6fff29b40", FALSE, "10bb54a3c01168ac", "5058bcfe", "f21ee3f24c42859a34bd337e38acb8db" >>,
    << 4733, "f2bbf02bddee77037489e3c668050e61", TRUE, "4313c6120860ff3d", "15aecb43", "0be017a7d4d583a97f5093fa8d5a5dbd" >>,
    << 4754, "cf88e26b94bfc277b367c72a2033b053", FALSE, "7d3cbf93faf9dca8", "31878e6b", "3f526eeafb83341c09f09907a18c31d6" >>,
    << 4783, "e1b0c829215fbe0dde31e582a22e0734", FALSE, "12283893de6d009e", "dc42cba", "50b2c36e362efd9850ee531f50c565a6" >>,
    << 4787, "dd2e5f63f92be3130a7e555785510711", TRUE, "7fa11a6f715b73c2", "785468d0", "df7638ff9daa605ee5229b784e8c1e2f" >>,
    << 4801, "2787ffddc472ae9300994ec826ed4375", FALSE, "348c1afae91e7ada", "7260b1bd", "e9c9197a5ff5c8f2c45d610f955e3420" >>,
    << 4803, "eb86710d40cb67b5b8192749854db3ea", FALSE, "a599ec34a4926e7", "846f825c", "93ec4c9f15f913ea91695ed405e42c64" >>,
    << 4817, "60995c043fb2fb9304159006aacbe12f", FALSE, "611a5dc819c3f4fb", "391e0ad4", "756fd9d8fa059fb0e54644dff79eccfc" >>,
    << 4820, "5b7dc7d6b73fd26577ca6ec59ca8a438", TRUE, "6796538ed6cae6d3", "15078f14", "824115e52b92e69837928fb0396925fa" >>,
    << 4822, "6f6ef7c4b780f6be400b05f2fac10536", TRUE, "3002108d9a22237a", "a20dce02", "3254e358a31f9d3f156a0474e692d140" >>,
    << 4828, "1e8e289dd91eeeee9e6e319f6c53c297", FALSE, "e45252d2511655a", "399d1e0a", "538734551237b87e2f149370bee5fc35" >>,
    << 4860, "7e9ea2832132f1a50826e9816f634fe1", FALSE, "4edc1fc2eb456a4f", "843f4a75", "2ec25e1217750b08acbb616347af21fd" >>,
    << 4868, "dd25d42c147fe21ca89d4dd479bff781", FALSE, "36badb41395764e8", "51c7d83a", "75c60948159b75892f9b83aa796527d5" >>,
    << 4873, "dd6eabb91dfc49e1744bbe9abdc41a56", FALSE, "24d0495d6684b4e9", "ee0b1895", "4f53753edda0520c7a38b3d9d98027e4" >>,
    << 4876, "68f6abf4d92ac8409fedf88f0c24fd44", FALSE, "3d2e97f6006cc5f7", "c7cb8319", "595fb5312fdef8fc52c26b0274fdda6d" >>,
    << 4885, "6b04fd519b4f5ad947ef0ad8938810af", TRUE, "1b5f7a010afc0027", "d6f3eb25", "1dc77fffd9bf518b37e22cf6e1392cec" >>,
    << 4898, "74f7d47a5f475b28d0dad03d1d6e4fdd", FALSE, "6a785d603bfc59d0", "588476e8", "ea50b5f4a512f2524aab16ab181e0254" >>,
    << 4899, "aab939b0af8bc202f783f194c9023d77", FALSE, "57a347d75e2056f8", "96c101d1", "b6ef1217da4a201d354817998da6964f" >>,
    << 4901, "59c2f35526b51a4ad315781a4b8eff9d", FALSE, "6ccbc38356365b95", "2e7028d8", "c0314aa5cf667928528b309d4158ca3b" >>,
    << 4919, "8f402619e29af1858de99594360ba75f", TRUE, "bd5d400ae6814c6", "83ea9e5a", "5a7732a11834dd50a69450b80e3da8bb" >>,
    << 4924, "5bd866926e83fad2371fe4e2b444ed67", TRUE, "39b61ce9f7dffda2", "8dd97a46", "998182adcb4c02fbeb66d447e6a68469" >>,
    << 4933, "a62485a45ce1ac4307f17fcab04c0c22", TRUE, "44431f82f45d21d2", "74dadfdf", "5848836a59bbbfeccd308440495cfb0a" >>,
    << 4937, "192980cdfcc304b51157024db12eb532", FALSE, "1f244a727305dc1e", "c74ac909", "3bad4600f91fce9a58cfc01b55a99b81" >>,
    << 4944, "278658e221238c589acf5c0b69e632cb", FALSE, "50f738a414015541", "f719067d", "e4545b57a10c6331ad7d154f2cbda4de" >>,
    << 4945, "7621a18097b75385cd0d6b63e70396de", TRUE, "342b966acacfec4b", "16b7ca0b", "e38de8d72b7f5db809e79ddc200061bf" >>,
    << 4955, "04c53881e024cee6f126a0b0fc21408b", FALSE, "72a1dbb5caaf2833", "aa336535", "7daf4f10aa65e749ebef8fd65cfcda3a" >>,
    << 4965, "98d9715244acefe45439f7b8b5fe48bd", TRUE, "5d9863edbcd63df5", "18e5ec1d", "e656705d3d69a776c7fc2bf9c9482ee7" >>,
    << 4971, "b24d315c7970d1b2a5d570f93c25c5d8", FALSE, "392441d0625ce4c0", "9ed1c25e", "431ae91822aa56d48735d171e0f8dbb5" >>,
    << 4975, "136683018e6dee3d853eb0fddb1f1ce4", TRUE, "6c7067fe225969e0", "127d0f74", "7b9a1c934c3055614681f1571e136b2b" >>,
    << 4978, "48f9b760bb5f6b1ab5b4c4746b24d24d", TRUE, "7eba8a6af9a9f38b", "a6d6c4da", "3571ffe88aaddb12d216896bffd2253f" >>,
    << 4992, "59e574ed221f81610fe6bf4e1aac0b65", FALSE, "6496f0dc755807e5", "75b36675", "f40c707a9a3b5cb32590555cce1fd01c" >>,
    << 4995, "fed3a23e376d9544cfc3a4270511a86b", TRUE, "5bfe03daf10bd3fb", "b8aa2afa", "f9798271977b5e4bdaf342ab02f5218c" >>,
    << 5002, "f953369c3bed72a70892138c0ad2362f", TRUE, "224cdcd860216fdd", "2d14d2c9", "29d3f4a06718ce337b197b3737a64956" >>,
    << 5005, "dc45a5708d16fe832de7e3c92621d6b0", TRUE, "4282420723380cc8", "ac381a07", "cbca5a6992eb45535c16e33b765d0439" >>,
    << 5008, "435b71cdf344069212397eec9f1c5b5e", TRUE, "3a75987920858b7a", "8882e707", "4332474e049007b910d45af3d7d9196a" >>,
    << 5012, "b309a749a0e5201e7c6b840d0b75960f", TRUE, "536245d660560a24", "d70f0d8a", "33c1eecd663cdff868487492a553882b" >>,
    << 5013, "387396ecffe01e0c2afd2ed2bf947b8b", FALSE, "39ede276ef8367bc", "822f0c15", "d78d12bcd38ac0175face43347f7027b" >>,
    << 5022, "28757ea3eed6ee498912f5a0fb971452", TRUE, "317dc0b1e4ff11fe", "9d56bff9", "6a7431011f4582a4cf51fcac5e3f9f97" >>,
    << 5025, "0637f0195486a73f6d042077393a4594", FALSE, "7a7bdad740300fdb", "ae931d89", "79f4d9d2db71c3bf26a1459344eadb46" >>,
    << 5033, "d1c94e1492cf8885d11e13dd40007b3c", TRUE, "15022e06fffd8f35", "14340ba2", "ae9b057ca7ab677b515575f4e68f23d3" >>,
    << 5042, "b6b2365ee4a64129e96c83b80d436d29", TRUE, "23a61c39cb3fe160", "13347c9a", "2c0d939c25447a77f50aa67acc694af8" >>,
    << 5050, "04d343d2a04021af72a40284157d70b9", TRUE, "4295c45be93b8dd", "b91e3468", "2f6d47e7b45e24fd1b43c2f5c4275273" >>,
    << 5089, "12e003c6a1693d6e5aafb8deb6a66113", FALSE, "5e76aa4d3143dd69", "7f8867e0", "7868d878288f5e5e982912ecb5992e3d" >>,
    << 5090, "e3d1b02554fa519668df48905b2ca3e2", TRUE, "50c63c8d33ca2cb7", "beebff4b", "1b5e7abe0ad340eee0592efa31d06911" >>,
    << 5103, "7addfd85e863a50bc3743857df4d945c", TRUE, "118bf59f41a30a98", "8e3f882b", "b9431dd92281f202cea36acf816a628e" >>,
    << 5104, "33693adacc3592b24c58afd5a91efb3b", TRUE, "7e8323f1681fd4e1", "355f4bd1", "2c645d0cd35c4d3f06d3714afeccc475" >>,
    << 5109, "9d25825c5d5bffbcf53ccfbb76b68aea", TRUE, "4b68fb1c7ae546a8", "be5db5bc", "33418da625128450109ec974b720c57f" >>,
    << 5116, "c29e713ef6b44d27d8959627d6b85b5d", TRUE, "7cbabbd580ef481c", "96e067d7", "266c5381cd494e108728dfba81bc84a5" >>,
    << 5132, "dc74a83e03a3fa76743f21b52aeb1ea3", FALSE, "44870ab857b0a01c", "e1e7bde6", "987a0a034b1e19a4be1548fd7866a900" >>,
    << 5142, "7cfcf6d3816a3c4ff9283b781123f693", TRUE, "53f3fec1571a020", "ceb060f0", "e642e248429a88dfc16ce71059993167" >>,
    << 5155, "df54e0b93378d4a2162597301d7402f7", TRUE, "5edf6fddc630a21f", "18563c83", "f5ab9f56ce45ca21d148fa4de753ae4f" >>,
    << 5164, "da0bf0d27f9b2afd21b0bb6f8cab22b6", FALSE, "5f71672af6fe55d7", "c8f0c859", "229f6911913fe5d02c9556b1ed22b044" >>,
    << 5176, "307b6dfbbbbca78e3c1479df89cdd0b0", TRUE, "9c0f90a709b12dd", "715cfee", "5b34344c6bb9bc5a74b987eb060ebfbf" >>,
    << 5183, "862795a13b172ee249b63dbbd1f66bec", FALSE, "5a197cfebe16b704", "d1e0b662", "9b2f6e1d27217b47532804495ed8be4f" >>,
    << 5187, "b3a5e9ab763f61502d82f5f2aca86105", TRUE, "679d1faacd328988", "1a217460", "032f5341f89f31f60b3a082d0953b273" >>,
    << 5195, "8939a50b8f88ded89ec78531e0e11a22", FALSE, "7d60fb015636bc0b", "83ca445e", "9b5ebee1433bd2e66cfc69d41baa3a32" >>,
    << 5199, "065693712ee2c364b64f46dd93522d78", TRUE, "7b5a34f1199132e7", "3cc11037", "ca9b413b8b722a3035446be60b8af1c9" >>,
    << 5202, "946f12ab12588b1b8cdb2e9a10dcd0df", TRUE, "cbabbbd7015a6f4", "fd3c15a5", "e7562a8321bc25be61c236d3bce50006" >>,
    << 5203, "d60f8beeb378abdec9733a0e27515880", TRUE, "118eebccf6456f98", "cfb16bbb", "4c203c993a8e4219f715cd2b2c1dd486" >>,
    << 5207, "b0905a328522c889df889d5e30b12b7c", TRUE, "21977584dc59ef94", "38b3bbc2", "ae89e360bbfaffb52e2fbaf11e6bad53" >>,
    << 5224, "91ae1ae32ba4ba651cabd40eb9f9ce43", FALSE, "76349ccd1b06fef8", "a38cf2ad", "47e2b774b41ec033e88230e2fe894235" >>,
    << 5239, "4f63a044dc7344f6fb8d92c86ceefe75", FALSE, "15b5dd3ff111b192", "64f5cb40", "9d24e06875b0e2f956b6c50e2d302ee3" >>,
    << 5245, "76660aace181c4baf76b56572631f06f", FALSE, "1d73238bac2f5380", "bb92a4f1", "ee285b75bd4f136057808cde0ae38abf" >>,
    << 5249, "9a390cb9aea2f3499a94e8447ad9706d", FALSE, "75182f134f143b40", "c19a4bfd", "a42e1bf166132b7a942cee0a2e256517" >>,
    << 5250, "b2b124ae3cf10347190f728bd7afbb72", TRUE, "535d8b5ea292e8df", "c5e20c3a", "f3fc1c3697e2ddd6d0ed1961348438b5" >>,
    << 5257, "d47e651135b4a21fd1c49522d1695d75", FALSE, "229ac43b1b3543c5", "b18eca3a", "44d150168c50a759226dac17e174eed8" >>,
    << 5258, "79ff1917213dee4ab4b0a2b398b23fad", TRUE, "63f7cd996e3049ea", "a1113ad2", "664534433fa06c3319c2694189ef9f19" >>,
    << 5261, "4fed5c1db13c27d898f04a6e58d2feec", TRUE, "2e114f1b2ec150ff", "c7d53534", "9d2212e81f32294248db763fdfc79125" >>,
    << 5273, "6b45a1b9121d85223ecd5c72c652296b", TRUE, "3d2bdff8c668935e", "ac435143", "d1de198e26aa0f8dcd2ab27dcca91407" >>,
    << 5297, "50b20b82f328e809daaf29c0e308c08a", TRUE, "74fb1b66828e04ac", "813f120a", "72fbeb70d0a0604b26db6bdd76e51bc7" >>,
    << 5306, "b35b52800192082822f15ff922993666", TRUE, "6ea0d6818993a445", "1c97345b", "1ed0e6c91640d9850a191152b81660e6" >>,
    << 5307, "69655758e802de637a80feece3054a9f", TRUE, "2b27c05b6da842c3", "782a1faa", "13972629268a3bc20356bed4c5b08f0b" >>,
    << 5310, "63520d57fc2b764f899017a694f8d1b4", FALSE, "4d222c7582d681df", "949bb2d9", "66f0d102500fd3415b244b1236155069" >>,
    << 5312, "101f43ea256d2e333d423962461fe23a", TRUE, "19e891813a03b2d5", "ffdff277", "9fb583c0428ebc9c7c545e95410320ec" >>,
    << 5323, "b71bb30db174ec5b627154f674af7a5e", FALSE, "442a63ceb4695fc5", "cb551cb", "e6a7f981e83bad0a56dbd698c7b3f9d8" >>,
    << 5328, "c1141a0a11cbb98c25eebfb48e2d7857", TRUE, "183dbebe2f1046f9", "748a4623", "29c291f8762949021fb4347e889b8cbe" >>,
    << 5330, "37401fa66730d0cdf457b8662f61123e", TRUE, "6494fcb6de52ca6c", "95a9a30b", "e2514a3e1037d44f6f5090e97b1d18a6" >>,
    << 5343, "e18a0e656ab79b29faced601f865bcd4", TRUE, "20e67d4df233f012", "6a54e4fe", "c4e4e3d42c28d980d57e34661705dda1" >>,
    << 5347, "888cb34870c738c57ef8bde607e67a34", FALSE, "32bfab0b6caf95e0", "c88794ea", "3bd759d314eafe7b462924c5755ac31f" >>,
    << 5348, "4adc2c06fedb277ba6d65358c6b9bb8f", FALSE, "9963cd933247fcc", "82f3296", "cbfb3b7c2386eb34efe1e9cfd9403936" >>,
    << 5355, "2dfe000b52ed14344007654066737f8b", FALSE, "4cb0f3b8d1e61d5", "f68b405a", "7bd17e1c8a358f62ac592f97c2d7254b" >>,
    << 5363, "94a04f99ce659d1a489b427fac5be25e", TRUE, "31f1a82fdbe7736b", "24c5d57d", "2a3e85f7768536dc5acc4631945cfbad" >>,
    << 5366, "410308c294a783760b621c465c89b426", TRUE, "75186d2aeaf6e1c5", "aa960c77", "5d24102f07f8a8519a95ecb80a0d1c5e" >>,
    << 5390, "d8d1143a3cac517fe7b73eeb69c6f048", FALSE, "3b7450b9bbd7e5fb", "fca6147", "f645ea95888bb1904a69c12a5c02bea7" >>,
    << 5396, "38a5e36f974070ed4fb339aab38486d1", TRUE, "71823188abdf988a", "faa44a7d", "51d763c0b8b15adf4143ea1e6f943c92" >>,
    << 5397, "789387a27a9ea6783cd8f197975f0e61", FALSE, "fc3f8bcd0ea1059", "d6e40908", "44da3610cc5681031d59186df0491e33" >>,
    << 5401, "5e90258ca907cab488970b328d160f49", FALSE, "1bc4776990c91b6e", "cec8a2e2", "bf0e9d0c2afe0de96a563d5504cbf716" >>,
    << 5404, "dc01a2fdc44037c1da75e395f4c16d25", FALSE, "2db6b35d0c2d0539", "85f7dc35", "b66c80ccbc5c427029f6ed66965fa7ad" >>,
    << 5409, "6ec2718599bc94bc2eead98bd5209a54", FALSE, "319eab43ed5636e", "452da071", "13d1ca2310f6655bd0fc4c98af87ba17" >>,
    << 5412, "89827bb8cb3a09d57b9ce3969b40bb97", TRUE, "384ccbca63b4334d", "3bb55b07", "3d705cd45b21ba72262d19e0c2065ffe" >>,
    << 5414, "ae6a7ae32a7c734c0dca02447b797366", TRUE, "51d051cbe955bea0", "2575e7a2", "67e7238f43c903131f849300af80548a" >>,
    << 5420, "4f42d351340cc677774fe61f546c5b5a", FALSE, "7c0aedc4ba641970", "fc685efb", "da6a964851fdb82567d867d031301c99" >>,
    << 5438, "d15c070761d27e63f501ee33a046f2d7", FALSE, "35167dece6239d2c", "ff547993", "ed0d8c138c171a104db614771083c414" >>,
    << 5460, "28c40ca18ee76ff718049c01d89b9464", TRUE, "2ef338955b68ee6", "bb6c0094", "20fa3a6661c2664f29fff95c3bad943b" >>,
    << 5484, "e120eac7f238e7d081cfdb74c65b80a3", TRUE, "7fd8eb6b91298332", "464f18bc", "ec604715a15ce12d582fef7f7078a661" >>,
    << 5488, "e47efb3fd2aa1a1f88cf51c062ef33e2", FALSE, "3dd4674e40fb0c7a", "60b14581", "a37c0fc6dfd94a3d99ca1b3f3432e937" >>,
    << 5494, "205ffe40c4b2829bb0b4523d096ab8a8", TRUE, "c4a084d6735e29", "a4022f44", "2f2dabcfac2c14dafddfa9be4e4a0777" >>,
    << 5521, "8ba0c64411a90e48e48187da1c2e92fb", TRUE, "2587567be4f07116", "f59c2cff", "fd6a18585017b0f57a11e5a6c670af4f" >>,
    << 5532, "ebd2a0ef6a678d4c5baf74e7c6afcb50", FALSE, "5b013307495a4cd0", "9cc5f1f9", "535c8e562cfe36e26911324223e69e2f" >>,
    << 5571, "cf6ed83757a8a3d4a107bbe42fdf13ec", TRUE, "c58a6e5b96432dd", "3c979147", "ec52af06ef8ffe738bc261189fe86177" >>,
    << 5576, "97f39a12cec2ea07fcdc58d4a136f95c", TRUE, "148423e78f89385e", "4b86598b", "ae2fbff4a39f31cc5e7902869d0693b0" >>,
    << 5577, "36f0086c0a8a2b32407180d317ed2a70", TRUE, "28fadee9c40967c0", "ccd332bf", "510ab430fa581b68c56c21015b0a8082" >>,
    << 5599, "ed5885b8167352b6072f5c425f922b87", FALSE, "1a6c9dabb4aec506", "a02c6022", "30f80b70e9a6702ecf4d3cae6facb415" >>,
    << 5601, "b086d22b68a1a23ce39a64922151d706", FALSE, "48c0f67c2b2ff500", "ab57b728", "e0efef810dc708b2c919fba1abaa7af9" >>,
    << 5606, "dfd19c08cf9167ef9e7b5dff108471c6", TRUE, "aadb8b3d2260039", "5baec351", "1196b2c44b2a8689326b736effabeb18" >>,
    << 5609, "5a19b14cc28f5cbc77689ff408998956", TRUE, "2ccc35694e4b9eb9", "19474320", "3742eb252d5fd2589239aa69e928509a" >>,
    << 5610, "90553dddae7cb5842306426a5015acaf", FALSE, "53c12b83acd929dc", "67ba571c", "f80814affa6e2e6e39039ec3b0981a8e" >>,
    << 5626, "36b181f1d8d97367a808f54507cbb568", TRUE, "66599b59e7b3f724", "3555481f", "070d12a75037c51c62a85a3a3f8c7c92" >>,
    << 5630, "1908090bc2ccf5727289ba07b849e2ac", FALSE, "1eabd955fae26e3c", "288517b3", "e33e1bffb6b533b3a6e75dcc53f6a04d" >>,
    << 5640, "274fae7973161b5b16fb0c8e21178904", FALSE, "10344a75066e4659", "18217173", "bae9f35226aca4f14bc6e96fbbd03e69" >>,
    << 5649, "7a10c92b4a9f23a75809c77ce63a3ebc", TRUE, "30c5d837ec7ca76a", "d3a85889", "017b540e8bdad4d721e564f74069d8f8" >>,
    << 5662, "22a38c9f83004081f7a66249e0058f87", FALSE, "69bc4f32f8f02f18", "9643c055", "1b9c4b63f8d0cddc311f5d14560df81d" >>,
    << 5674, "415e1561c96b12f33f180c7bc99fab62", TRUE, "6fa0f0feb9c9dca2", "237d6278", "12324c55a11e5864b275fca940cff4ac" >>,
    << 5677, "ac516a2a6e675e787cacf3362d0d67d8", TRUE, "5dddc01537d183ed", "8b4cdfad", "88281f935072059479de90f21e130482" >>,
    << 5681, "f322f96fb4b4dfadd39da884801a6357", FALSE, "5b6b721099b5302e", "fb43a7df", "385ba5e81cfa69a69dc642df8bd1b876" >>,
    << 5696, "52adfb2c436fe8350d5937edf715607b", FALSE, "141f502dcaf32d9", "edd522b3", "bffcb590114e79d5931e245970b32252" >>,
    << 5719, "519829133e5b9dc44a5f3d7ee92630c8", TRUE, "3dbd117f74b92c03", "490a3744", "860ef231aa2cec7a36fc1569186b038f" >>,
    << 5744, "40b0e7e9cb73d10aa51cbfddfdc5907a", FALSE, "4dce762e525662b6", "3520b936", "a8fcd35dded62d42ded2a1ed7519f52a" >>,
    << 5750, "0a11c327fdf30f9880711b7a98b29ff2", FALSE, "5fab7581c8572d70", "545ce9e8", "02034610345a8c17b212b313687db109" >>,
    << 5760, "2cf9e9217d993d3d300b33f57fd96dfa", TRUE, "467a2c1601db3476", "3feef6c6", "0a123d9f17d239c32ff067ee7e7f4ef0" >>,
    << 5766, "2076f7a924d090ec03063df17f75a92d", TRUE, "2c7581ae569a0995", "8643e92b", "7d9dbea5d0ac03ec53e24f2d53e45239" >>,
    << 5769, "4780c2a8804c91ce509da16218bd89c9", TRUE, "64dc8ccfba434bb4", "2411120a", "c6fbe055807e1f1efa171f32463d6baf" >>,
    << 5774, "dc1a981ecaac729ee7b976b02cbde544", FALSE, "5076975a9bd15f47", "1ed5a9f2", "bb3a0c36fbd20a65f48c564a03a0a2c8" >>,
    << 5776, "915427caf3a2d372fedcd2b0d493428d", FALSE, "6d5b1ff1e132a56c", "1a6a12df", "f844a61b9476ae549c0dda42e05d72e7" >>,
    << 5783, "694d1e55a7d25261f47d7e26210bc024", FALSE, "55f9da8222be602b", "fedfb307", "4747de637d174881cd419a74052f8865" >>,
    << 5800, "402370396533edbab17aaf37f40d587d", TRUE, "6c483c0ccf07b687", "bdf741cb", "c327bb580b422ed1ed65a70995bd670e" >>,
    << 5825, "2c4347f3e1d83622ce7f0646554ae232", TRUE, "741b1ab23ef49cc3", "8d7b76ed", "089a4ec670748d277d5efa53806f822e" >>,
    << 5831, "cabe141ce7fabcadfd28c1e7f01a019e", FALSE, "614e1160a077f158", "c4cd0a8f", "e7d3c842a8eba148b8b160a753ef2193" >>,
    << 5832, "250b2fdbadbd3f15a3d68ac8ba189549", FALSE, "1a47711d5c147c36", "98be228b", "939df2e9643923f183273a0d7b76b5ce" >>,
    << 5837, "7e2d6fa159247ff54ae93b98042953d2", TRUE, "6b0f20e9bcb93ca5", "eec05534", "f24e7b455bfdfb4dda86686eef39225e" >>,
    << 5857, "f2b3b595b27a68f336665f142648529f", FALSE, "2f550fcd5c2aaa4", "8bb32695", "cb7f7ae27ccda11482b1046052ec5b57" >>,
    << 5862, "6db64e4e2c9cc977c60288f77b410408", TRUE, "39aea1d97d7ade4", "e954a711", "e6e9f1d825b2115f8237163245d8a9ec" >>,
    << 5906, "182f13ad23e6e9974cb8b2f5140c9962", TRUE, "467f6ac67e1be259", "558a0c38", "e879143ffdcb82e9292e40febd44d3b6" >>,
    << 5922, "3c8f5dde782d9a2b3b1ee5d48a57f49b", TRUE, "51d75c6af1d95709", "6c756a44", "d199bad798dd9891ab363665dfbbd27e" >>,
    << 5927, "3dc9b934ab1b2f037ca18a8efb32d8af", FALSE, "5a9d27b3abaf9452", "3e3464a9", "75b5081639a7ac9b7573756af8c81af0" >>,
    << 5930, "d6ad9a687d63279ee4b7bcf3c33bac66", TRUE, "4de266d311734c5d", "b8467cf1", "8f9dfe4142df053b90fd3d4f28c68a1e" >>,
    << 5938, "4a292d9a2331760cb7d7ddbc785c3ef2", FALSE, "6f2029be44f978de", "2d51c958", "152db65cb2adde043538aae46b5585ec" >>,
    << 5946, "92aa8de19f289e53ebcbda1512bde6d6", TRUE, "3c311b7567daec58", "d8dcd89e", "4ee7a7a9639cf68f765f3c34c9aa7f12" >>,
    << 5990, "b264333c36630f6d0796b4020d5fce36", TRUE, "2ef4a3bb40b22d0b", "f449592b", "41b60553f0fec9aa346666664e454f18" >>,
    << 5992, "0df99c5a6aa03a9eaf7dcdb9ec5f8ddd", TRUE, "50e9854a4dd2fa37", "ee220fe", "939ebef1399a3254ec6a8558a1785ba0" >>,
    << 6003, "a184733491f20d9428c47bdc51e6119b", TRUE, "6c04c4158b0bf5c5", "fb0c27a5", "6ce7ec18b8b7279e76d00624b753cba7" >>,
    << 6007, "9bb9c3dd6ab0bd6bd87025410748ecfd", FALSE, "a9883a3377541ab", "7f5fb7a0", "704d030fc809ad67ef2f5b55689b9a1f" >>,
    << 6009, "438af941ebd742c9f97e8180d7a2263e", TRUE, "45a21dd0bda1a58b", "320f8680", "17d9eacfa9ba2da67ad527fa336db3ee" >>,
    << 6038, "26e4f34bb4988ab1e5def60d31ee7cbf", TRUE, "2326723ccf0ecc39", "c7ad3e69", "a3ad5a08b3b5d86aa1dec914111241c7" >>,
    << 6045, "62aef36504dd15e1b3c03f7546832c14", TRUE, "5172c224779389c4", "c04cf747", "f321d91e3d43c3256403504fa93b4b9a" >>,
    << 6048, "31827118346289162b51f9ba1a60e598", TRUE, "64dec9c1765b2311", "b6158349", "b3f33b6ed86649ba895e82ebd129e555" >>,
    << 6058, "fff5ae115e4c22b7fbf593d466743129", FALSE, "60f17aaef05da5f8", "7a61fe57", "1d05cae8aa4d6d4a4621e423ba2cf155" >>,
    << 6064, "06227c4addf65dd7fd898ea6dde6b84e", FALSE, "2f5257df57117f34", "28af7a94", "2f8d42733dc02309873df967fc9774c0" >>,
    << 6067, "a21fe673746dc41df1ba8130f98d6e8e", TRUE, "57f8abfca7d48855", "4ae3ad1", "1601119851050e31887d1179bd33b231" >>,
    << 6090, "0d16c8bdbfb2b201b4cd953afef52f5a", TRUE, "216768db4879cd71", "11d9c8dd", "2954791f8789394be87effad6c4f4af5" >>,
    << 6109, "cf47d0cc526ecce6e5bcf0fb33a4e447", TRUE, "491228a498262272", "84e1def2", "cfba7aa03b1940ba4bf197c5cfc6e3f0" >>,
    << 6111, "3188d13a3a1693657a518efbd01255e8", TRUE, "1a173a649120d15b", "595c92e8", "8a719519d5756291a92e6db35f64bf0b" >>,
    << 6131, "7dbb4672d7484ad6fa071ce4a9fc2a08", TRUE, "196e351d6d10a4f8", "3d36b7d", "b64b8014df07591d857c97c3f2f701e2" >>,
    << 6136, "3c7ebff022fb12e9690a21146572f59c", TRUE, "77fa16fb518ae19a", "495b69e0", "a8a13ab8f33b127e7e1dd7700c1e7ddd" >>,
    << 6143, "3be83596622790304147d33a41ef1969", FALSE, "2d4d954aa7329267", "fe8ff7e4", "1b38ed94f45373eb5dfeb1751903d845" >>,
    << 6156, "3b252ed18ac32e82b7448cfc0f2049cf", FALSE, "4b897c11d9e49b0f", "287526c8", "4c75b1e494f1a33183546c5d199f9f82" >>,
    << 6161, "4b5de2c826b092bc654062c73f686a2c", TRUE, "65663977535d4180", "2e2eca94", "4e35ac26d1409dae64891a61bf2c7941" >>,
    << 6166, "6b742648d5508f480698ce5ae6f8f648", FALSE, "29672a3f34b2ca34", "f0ecbe19", "8f8674fa9f04a4063a6abf3bebbc5edb" >>,
    << 6168, "a44416d95b16d8020dc220ee2b6f35f8", FALSE, "6b8a2522a98d8770", "e2c417b7", "b089834989c2e123a05ce8d2df79a79c" >>,
    << 6169, "31339cf44ba8cea5166a2fd94e39c86f", TRUE, "67e960ea5b7b916f", "e6503b6", "0025ba151bc118b8a2cd7c81ab866d1e" >>,
    << 6186, "af8dbf1c5cda0b3269a4cf577d41f01a", TRUE, "74a399d45191a60b", "623f342e", "dbeca5cbd7c80368dec46b461fd0b290" >>,
    << 6207, "863b754db6b6ecbba519ee68b1d0d51d", TRUE, "335185853ce74106", "1cce833", "cc4b45fb9fc2b8f651730e529e79d7d4" >>,
    << 6213, "1a1e0d4116daf289fb3dbc474d708de9", TRUE, "46131b1fb40bacfe", "c42784e6", "044dbddd219578608cb9d798dec47139" >>,
    << 6217, "face81032c5197a456cde801578a122a", FALSE, "97ce3326f666a4f", "ae34f3c4", "47722e8b006e3ff39221b568759408d4" >>,
    << 6222, "fab8ac3bb12b3ccc13097fb0abb61bc8", TRUE, "18ea5ab75da107fe", "d8da7658", "66f7155aabed71df2532a60cb756c8fc" >>,
    << 6223, "9f4561f74d9cabef7a324f34335a74c2", FALSE, "35f7f569e7491908", "af049f90", "a3d596fde512d786431216cb8f65576c" >>,
    << 6227, "cb678c227df3b420e806aa91bf72ef41", TRUE, "259ecdb27323126a", "8dec77a5", "9444dc407683f8b7ee89cd4f6dec29a3" >>,
    << 6234, "c9b1cf4cd890314de0d8ada5d0045d64", TRUE, "799914313df77e30", "f7a02967", "8fb64cf0ae302d02bc5262b4c8433b53" >>,
    << 6238, "952d4b42fa9298e7e9131418c2199c17", FALSE, "2c47d277b1f4a0b4", "ce98928f", "d0f6c4637cf3e4c0c41bcb01769f5466" >>,
    << 6243, "6b153ccd98636c58dfe83254c3ce858f", FALSE, "6476ddababa75d37", "f4112bad", "ee647b08eb0cdafc2caa4ba92718598b" >>,
    << 6253, "3e2fafe2a111e0873d9c48e0668c1731", TRUE, "2040e39b96d8f4b0", "de184580", "85b66cf7b40bbf9f4baedc714def97c0" >>,
    << 6260, "1080466b272a77ae3a8bca18e3d5e26d", FALSE, "eb5c1d6b5d626ee", "93bc3473", "cf4abb6aa2c089cb75c0add394949987" >>,
    << 6289, "f6862582c815937b9f93368424333227", FALSE, "380624706910655e", "4ee45dfd", "2ea0b07efde2605e9cf84e3f85832007" >>,
    << 6296, "e267eccdb5c0b4084aa92bbb2c04ceb5", TRUE, "6dad7166e7dec5f9", "9aba96e9", "e7a5902af85c633ff4b474459e060202" >>,
    << 6305, "a324ffa7c903416d737e01751b540443", TRUE, "1eb87474515dd342", "d3a34341", "d8b2d13c35681b94891ee8021ed69954" >>,
    << 6309, "4a2211e04b02311b6864695daadd2001", FALSE, "38978a88c2c395b6", "5d0744ce", "d4323e0dbea12131dd5f4abecde93661" >>,
    << 6310, "4572a8b26f0338f9f9b4c0cc107bc4c8", FALSE, "5f84ee3a1c3b8d2a", "21e28105", "7c52e0e0098b83341be7df343a3f0d02" >>,
    << 6319, "b7975f56f3f28a82922e302865fa3fb0", TRUE, "460802b83102b216", "1e438031", "7875cf450dfbfcbde15c1fa46d2efe9b" >>,
    << 6322, "00aba9262a2d76c7c3f6030eb4ed71c2", TRUE, "4b4d876750bb1eaf", "8b4e61d9", "556f50ba697378713156af5fd2b53064" >>,
    << 6331, "9a73c6594d1f4f34c8b791dcc50c8bba", TRUE, "6e0a8ea6c1e46442", "79ef0f6", "5b76b06d03eaf189f198b29e57e386ce" >>,
    << 6374, "9f2b9de4ec5a46cdad36af7fc99cbeba", FALSE, "58a111d56e0165b0", "2307e2bd", "80cafb718bf255a1f6cd8e008c647c6c" >>,
    << 6408, "19f8972c68a3441570fc8b7c7f403f74", TRUE, "4080bd36a978ab13", "e08a5af5", "88e183df0f13e9c1ec8f3a842a7e9042" >>,
    << 6409, "22341f79dd5ab6b8372be709905a8c0f", TRUE, "7af565ca20f591d", "dc59868a", "72b9f7f3c4694ba3969a5e3ebe563a2e" >>,
    << 6414, "87bc99cb851e7420b88fd4bf299a64fb", FALSE, "236888a126835538", "247b1cd9", "ecbdbd3c6b89f4bfe720afa4409adbf2" >>,
    << 6427, "f04bc464e533c0cacb205da2603eed56", FALSE, "2124e2d650f7f7a0", "8aff93d5", "4d1408d8013613478aa71d5e1ca2482b" >>,
    << 6429, "6fd181b3f2be018c6abcafbaa6370d31", TRUE, "48c32b8e2f2c1092", "e3ce5ef6", "ae1d000999bbcd1a42525bf2d03b23a6" >>,
    << 6437, "2257fe7310173578ec837c65882a4834", FALSE, "7604a85875fbae77", "372b732", "e1f1e424683408305ea51b65029d05b0" >>,
    << 6445, "7f22e05aa6e3cb222398c3dea17e42c7", TRUE, "1fb04c1a6d5eb7ff", "682f8832", "c1ad004f9f03bc85b556aed17cc6303a" >>,
    << 6459, "573789fbd1c79d3eabe57cb867d9ec96", FALSE, "4ecaa5858e4046a", "75189d2f", "3ad3303ca46307bc714fa44472808e6a" >>,
    << 6462, "a75e281fac74e99c85e4c9f87f2d6e04", TRUE, "584957ff2d52c3e8", "ad4512c2", "cde0d723372734a617bd11c63a0582c9" >>,
    << 6476, "04533e9191acd86ad330b0082723921a", TRUE, "7d4a1d2e6865bb04", "4019130d", "7d66b8f99b5725ca3ea2d9c71957bd1a" >>,
    << 6545, "52faaac0fabeaa5a83ac6af8b37d2da0", FALSE, "5061c5c4c8fa00ce", "5a252ab5", "15391206567de50bca7c554bf890ae50" >>,
    << 6557, "c2ae269701795c0b45add605ef0c83c7", TRUE, "5739339d95339e02", "37dc5eef", "bc9c53aa17ae7955ae5300d07bf2599c" >>,
    << 6585, "47ca280d3ea0b4be8997fe266ac273e5", FALSE, "15d4d478c13c9acd", "939e4978", "2e211d6028f0248ef2dd07a114af8c94" >>,
    << 6588, "f83dad93bedb7385fa4e313d61bda5b8", FALSE, "6c559bff1722e64a", "d86706df", "2ec47d7435e8ca11a91f610da4e924b5" >>,
    << 6602, "4291cdc561a349f7d1623a7834f4a6bb", FALSE, "11785023558a9b47", "f3ef5692", "48aa94a7acf06a27bbc805d67c9a69b5" >>,
    << 6604, "f4cb6c20d5e02da588c1cd10fb56b21b", TRUE, "205dd5c1106a00c1", "3bd21c9", "8d0788e29becb9eee16b6d084e069ad1" >>,
    << 6609, "ea668185a29a47eed56264819997171b", TRUE, "3e5b574eb917ee", "b84c819c", "9fe6157899889087c2a065fcf7798327" >>,
    << 6610, "cbaa241a2cb4663b89e478de0b85b9c4", TRUE, "814f00fdcfff441", "88dd2bff", "3e3c71c520b2aa809fb9f92f8b6196e5" >>,
    << 6631, "fe92bc23609fedf5a2e61875cd802a7c", FALSE, "2a040d586bb5528d", "1674a43f", "9ff25c09dd30407d60a6713a42088007" >>,
    << 6634, "520752e0905746f67064098d51147c72", TRUE, "5d45a41f21ebe78d", "10506d6e", "dc9ab0248230b94e3112f4316c1981c0" >>,
    << 6639, "1609938c1281f6f18b34309a9cb388f0", FALSE, "4c00b3b54995a9ac", "9a8a9934", "10454d7bc8a096c88a0558b96603c9fb" >>,
    << 6644, "cf40fa798c7f6e4744e1c2613bd7b93e", FALSE, "70a250e297aea69d", "d514cbdd", "be0b722a890db31627273f6c93f26769" >>,
    << 6655, "e59ebdc152f546cb68c599daf11bfe1a", TRUE, "78a665ff089ebd10", "2ee576eb", "0a2b24f76ef8dda01ccb0d8913230d41" >>,
    << 6657, "f7011486c57452836f36021fbe671fe9", TRUE, "1889d5deba531480", "33427238", "d95e63eb422c4626c6baf75aee20dff0" >>,
    << 6663, "4ef5853711e7eab6eda7061f1310d630", TRUE, "4f2ff9af37c636a9", "7f675d20", "d6b74e05e0f826476194838559fc2db2" >>,
    << 6665, "c3d8d763420d65b7dfc8bbc71e788c5e", FALSE, "7bc4617c61d3f579", "ec92ab97", "bb4c5f1eb7989a86f39c7322e910c64a" >>,
    << 6689, "dedbc727fb396f5f18b411d0694fb0e2", TRUE, "11d1a0d34d364521", "557043a9", "e475c5728865de8ee221c259cd842bf9" >>,
    << 6714, "5194ded7f2f2ede9c80355024ebb9ac2", FALSE, "8fd1003821a629", "66e26ddd", "b80a27625eda0b8aea6a7ce7f64df612" >>,
    << 6726, "4859f85633e5e50856ba147a110e6c0d", FALSE, "74072ed174e16195", "c0fd9468", "9ef1713cc804da489b14251667064572" >>,
    << 6740, "cf09b1da132861972e783d6eda59722e", FALSE, "2c8bb28e6e4acb19", "124cd751", "fbcd3ea5e27c0a806ef55128bf0edc9c" >>,
    << 6778, "5bc6d755845d033d1ac8fee966c0b77d", TRUE, "1fb4283d1c8e604b", "a0b356d1", "02d45c9cb90402a0c868cdc15d41658f" >>,
    << 6788, "80141f1ed478f0ee69df570fb660a1fb", FALSE, "5c492d27f28e6f6f", "a6428e9a", "f00d963e6f7999fe6056df1c20187566" >>,
    << 6794, "414776779865b12165bbeea4ba8caae3", FALSE, "17fb95a0cc4fd66", "27be9306", "428d535a891e771f254f160aea988942" >>,
    << 6812, "f249b281c6b6c48a56196c9b05734e01", TRUE, "6e4c61b160e48e85", "6b1b5acb", "c8162a03495c2dc316904c11660863f3" >>,
    << 6817, "d1de8fd89e717b2255746dd6497fd021", TRUE, "39d9cfd5ea9a73e1", "1ef96874", "5c239aa63e3a6f57c280f89b3e8a042d" >>,
    << 6823, "2b2c93d9d4d1f0ddf994223a18dfc4dc", FALSE, "33fa2ad379655465", "80d06831", "34fd5ddf27487a8cdc667b06851c3c56" >>,
    << 6824, "cd48fc7880820045b408c76f7e347329", TRUE, "2b9d45c665d7bd81", "6f5e20bb", "4a7f1156ef260fc6863cdb1eaf2165fb" >>,
    << 6826, "828b458ed70ca12cbb7183fdf837c100", TRUE, "28e52873f79b1011", "e67d6946", "1dd75c4680cc0892833d1f31de5bb8bb" >>,
    << 6837, "553142a2e2aab53ad3aa662ee29233cf", FALSE, "645b0024a14b6d4f", "6931d6f4", "a5ad02759468d88038d9c91d359ee053" >>,
    << 6845, "47172c6edd2bfbd765345e8a3abe7635", TRUE, "3e4570bc8b1bc366", "8f07a407", "99de43f3c118ac5fa7f392275ba79cd3" >>,
    << 6854, "65dc5a0b8f46b00f646fe440b08e91c2", TRUE, "4c94a21eeb5671fc", "3fd61d59", "cbfa5879fc4127b6758db278ac82ed11" >>,
    << 6882, "f28f338d27e8d8cae9ec4a19c1ab7dce", TRUE, "6ace8ab23003b3fc", "49e0ddf8", "b3d9d37670a6025bcbec001c1a4010cc" >>,
    << 6883, "79b3da26ccaf1537853210aba9349daa", FALSE, "10b93cc1ab67c9b4", "295e093f", "003c82947df6156ca1faa1628e773253" >>,
    << 6899, "a0d68f580888316f8f04834990f73d37", FALSE, "2282d8b49e3d4203", "42495558", "a363841331d59d0d8efd00e741e2c8c9" >>,
    << 6903, "d84cfc243e0e5115e191240f94d886ea", TRUE, "500da7fa6ebcfefa", "bdd3aa95", "8eb87356cd084b123cb35fd218e38091" >>,
    << 6904, "4c4984cc8531b5527eb66da8ac4c3baa", FALSE, "6a818470c12bebc9", "d34bfd9b", "e38e6529cd413c6f83391ffc5339961d" >>,
    << 6922, "e6984300d30e6725bca9729b6a915771", FALSE, "32a00cc4535ffb75", "febf4ae5", "54ac07705e4cbfcb88aab48aec316178" >>,
    << 6925, "2d57bccc621ea13f2cee275f35d0d212", FALSE, "78ca760b66679abf", "e4f0c66f", "02f633cdf31854ae3435f1ad16831264" >>,
    << 6933, "58e6c543285e8c116a88b966c1ded3a4", FALSE, "5766a613aaf652d8", "c298cc71", "40d29a88a31735b27663d9f7b6d03f53" >>,
    << 6962, "1d6da565e6cf1c0d0e95c1db7f142f69", TRUE, "4cbe44a4c60b47b2", "bea6e79e", "187a7c3aa57663131b9000a1b7436e68" >>,
    << 6969, "07aa40723c3570d67cd02975dfd7df8e", TRUE, "676bba54b56736e7", "4f215d12", "251fa7e295b679f4bd55c15331dbadaf" >>,
    << 6971, "1c5081fa5d40b4ce55f0a80ddb2b26a8", FALSE, "342cffa1d0b6d2f5", "cc06b4cc", "60c88073ebbdcf35ec6c6706b10f18d8" >>,
    << 6995, "8f7fc013bb3007289d7a8db93699e1b3", TRUE, "7f6ebf3de3bd2ed6", "110857f5", "dc60a89493c111dfd5ef0b73cb2302e8" >>,
    << 6997, "703ae966134fd5a3385fecde900e062f", TRUE, "78e1950b54b70ec1", "1eeb00d7", "fd04468bed6019d5101056d0f469f27b" >>,
    << 7005, "2bb8920c20cbff8100725dd3cc91b13c", FALSE, "f1bfc9f0b4f77a5", "d1d28bf5", "e76b058675ed84b22242636af7a01f77" >>,
    << 7012, "1b738026863a8eeb3bd374b257775576", FALSE, "5994f04bd2a9655b", "1a323f4b", "4e868bf45c43a5bef24d3226c971d04a" >>,
    << 7015, "7384c68a7b1063142b8abe6512034185", TRUE, "636a3bade5f902df", "77d1f182", "b7d2683b47a58f5634356cc5ebb05749" >>,
    << 7021, "ef0eae444f76a2de6589146316bcd398", FALSE, "10f9a40ca2b0ed99", "47bd258c", "963cfd5168dd54384fbaec5f3dbca16a" >>,
    << 7029, "3a68073d12b2875f898d0c764404f5ca", TRUE, "1ef515d627eef6c1", "d70d0594", "b653d55285e9dff13d234165f87422c6" >>,
    << 7036, "5dba04d0bcd32c9af14a01af2b7d977c", FALSE, "230a7450ae28f085", "41a41faa", "e85277819912cf122e1e0b97bebf070d" >>,
    << 7051, "34ea3eb497c964d703916712ea4e39a3", FALSE, "834722cba159cb3", "d45f890e", "0b8db5666ab771de66aeb77586ce7d9f" >>,
    << 7058, "673ec0c9552480a9f55160476997ed48", FALSE, "7f345d05f8b2e0c9", "e4b5ce0c", "42c08efcb41a4ae417d7553b4b31f933" >>,
    << 7062, "9263ee14db4e12e5040f245d8404d683", FALSE, "78ce57502348a43f", "22921523", "e319388bd184e1228f62d3e328341282" >>,
    << 7065, "dc079e284ade746af7d7de738c3657fe", FALSE, "405f32c2e7e4caf8", "5bcfa29f", "bdcba834478dc6fb25ac7ead309d9ed9" >>,
    << 7069, "28975d24856b15960be6935dcf2af980", TRUE, "b4337cab21ba63d", "60922c72", "25abe13eee07f91c343d18d996c4d97a" >>,
    << 7082, "7e43317f22d127f0f3552b90d5dfeea5", FALSE, "74fe232cdd11cd83", "46636a36", "47d7dd8c6ae42aec79eed9e569046e15" >>,
    << 7092, "eccadfac408b8c63b1e1773002d182b9", TRUE, "2c25286546746c39", "d146a220", "91dedbef654ffe8b55aede2692b2fce6" >>,
    << 7140, "d6fdfb6f094500a7ddadbf44ef87c29b", FALSE, "350db9dad4e9c2d4", "46ab9aaf", "615861a8b811e36a42f25e593d667615" >>,
    << 7143, "c6fe132d13898ac5bf8389be783d0847", TRUE, "19630bba0823c21b", "f68e537d", "4f59f3b1f004ccf4efadbb3b111987f6" >>,
    << 7161, "1b56e7cc5143912d6808184361123cf1", FALSE, "44ec059d78e87cd7", "6065d65f", "966a298dd84effac2f0621a835eb3eed" >>,
    << 7167, "f38fe766b526a6538f6fad0754ee7cdb", FALSE, "1570b849ead286d3", "6959b45c", "54d1a675762cd5bc2ed0cbdd2e5c22df" >>,
    << 7173, "0366c7c1f803038f2e2f4efd18d91536", TRUE, "11b4d84f57eecdfb", "42ed00db", "bd60091401970751c57df5b8297c14fd" >>,
    << 7178, "5c483cbc5743cf59b51d3c0f3765550f", TRUE, "aee94e03c198bcb", "432885ae", "f11fadfb2f334b823a1adea4d10e1dd7" >>,
    << 7184, "a6c5e1fdb87d61dffc23dfcb1faa9a75", TRUE, "49d78bfae2bff5b7", "5779b385", "b73f4320127ffd90effa7bc35b7811d7" >>,
    << 7186, "398b2309733f486835f0787f7cfa1e0b", TRUE, "34124e45fcdcf427", "d2b19e79", "77e9bcf26095e263b0e27e2686170131" >>,
    << 7187, "652437f77f2028cb0fe5edc5a00c77f9", FALSE, "752e3aef48aaa25c", "b43b6288", "c1d76f00318fea4e023061917f8da86b" >>,
    << 7193, "30fbbcc53d50825e5f68ae7ce1c26dd1", TRUE, "160f1ed60d559404", "56f8cdb1", "887f3f350ca626c2afeccf49d4286c2f" >>,
    << 7196, "f3b65cc19c84d8715342daca16ab9005", FALSE, "3be6e0a7897bb791", "799d7f0f", "117163d7a49795f17b535fccf33fd628" >>,
    << 7197, "bc599703e4eea1f177dd8d58138cac51", TRUE, "3218f58e3fcb474c", "76a3311c", "0c72ee275ac42d83295d742d7d4bbe4d" >>,
    << 7207, "c5b995a007c5fd1ce33ac0756f548a8d", TRUE, "59d79117d3a120a0", "ae6ac179", "a7306cc2b5d358e280efe1e2ef7a3a59" >>,
    << 7219, "b9dc2de92b14e2c37dc38fca8c284e42", TRUE, "3dd5eb28049286f3", "fcb7573d", "dd2e0f22aa9e5d54d8c43d2837fb3703" >>,
    << 7220, "18f6351834649294e51d3f6ab917f156", TRUE, "58b9122b9802a30a", "6da1488d", "2fcf447f53d2f4accd368c3894c48f20" >>,
    << 7224, "8e260bf7e37dd2bfc3fc7594d82bfa99", FALSE, "6844a75829856426", "8709cee1", "c8a518be557c9feb879f28bf4ed754b0" >>,
    << 7249, "b371d9485da6aa3260605b8f683fb047", TRUE, "19fca7f50aaf49", "38d31610", "d4eea69b0508ab0cdefb3ee9379e04e2" >>,
    << 7257, "55babe1b03230371d5646ba7e400ce2e", FALSE, "7b8a520837d36e04", "51eff748", "f60caa074c75c5096887a9a363da0b63" >>,
    << 7262, "a3ea6f228fdc86395c14d69a9e6dc61b", FALSE, "6864b81c67c564e3", "3b9d81f4", "05425f664becf8de57cfe84b2773731b" >>,
    << 7282, "d53fe13c022db7bbea8c80ebd232a18d", FALSE, "16ffd4ff8040405a", "797f2470", "3ff83da7c1734eab39f5c2ae32b72df3" >>,
    << 7296, "f06bc95aedd8669a50a7f8d5f3f24672", TRUE, "96566cda590e2de", "dc98ef42", "3c4c82bf98286079640bf412897ec2aa" >>,
    << 7298, "ffa37da2cbb94708afe939cefcf5d7b1", FALSE, "bb2669fe77cfa3c", "f76b4f2c", "65e758087dab5b79d534e18fca957b0b" >>,
    << 7322, "1c4ed7f10bb75e142ba317714e51aadf", FALSE, "4b135f184ca4d511", "3e4912be", "9490729c21d01df40b3533536bd8d209" >>,
    << 7333, "3e97147f8ea0df77a55e437f5cc99120", TRUE, "11d80af4bc2ddfa7", "bb2d3de8", "7882e46d9e3094bc9eac910003219dc0" >>,
    << 7356, "0511667bb8ecff087ccff9db0a4b1960", FALSE, "4f15845f3d333f35", "a4294f98", "483cee79bdcbb032f06bc28cb7e7a4ca" >>,
    << 7362, "8e0bdb6afb5e8f43de14199bab85b5e8", FALSE, "11ca167b28db2e69", "b978d2ec", "5799283159653dce040f5c0a37b2d4bd" >>,
    << 7363, "c84dc95177fb63a8e15d59b22ee7fb0e", TRUE, "5d2e553cc89d7139", "3d584e34", "6c763b6632d1d06bd3c4418de0949f97" >>,
    << 7368, "1365aa811f0091c01e3191454ade3d06", TRUE, "24546465545d9df9", "e5f30241", "b591c519bcc09e5e18ff51defd23f249" >>,
    << 7387, "46bcc3a57f7ffbc9becff7161c7a1258", FALSE, "7ace57a05b7d62bf", "5d4d87c8", "ebc6236c4374ad18d4649bc068d879d4" >>,
    << 7393, "f050ad7d43c5f8e51d3980c6c3ee9f22", FALSE, "19e2e5e7423aac75", "18a3c4e0", "8753bc60f2228c4fa2d98928d2f34307" >>,
    << 7394, "51569e58a768e74ce0d415c1a6f82340", TRUE, "67b92d485d9a6d55", "711394d6", "08b617c78e17a5d2b67eb07a59083989" >>,
    << 7405, "866829d6f56c7a6bcea642d218e7b756", FALSE, "b69b1bd164b77ad", "ac895496", "864a22dccc12f03df688003262858e48" >>,
    << 7420, "550451c820bc3b3505d56040d6cd69ff", TRUE, "3b8d776782611548", "ddae04ce", "3f76064a1193205bda8a303e8efa7376" >>,
    << 7429, "c7d430b699cc824a3a38c8fd20c1b36a", FALSE, "624f2b8e458dcfe2", "77616d26", "30bf7e8124384c0b657173188b04c6a4" >>,
    << 7447, "22e5fee23ffdaac91150d2d5fd1c24eb", TRUE, "6fe25d75c655491", "140d80aa", "b42475c58251f203df943a54b25ecefe" >>,
    << 7451, "b86e837f9282f1663e33c7cddfd01c00", TRUE, "3af949175e16044a", "2d5b3972", "fb9908ebf63748662209a872d8249181" >>,
    << 7452, "08d8a860eb85cdca5916e99dd588484f", FALSE, "1aec840c8e77c86", "153b765a", "b4d9523b7c2f2236fdf120086e94076f" >>,
    << 7515, "462d7c860a9717143ab6c64ecb1249ed", TRUE, "559e08dc5e6cd170", "3b3042d2", "82500062d2da37a65a4066c33680b15f" >>,
    << 7529, "99dc39d23d35e99108771663d5ce2d7f", TRUE, "4fd5db63e3f13dfa", "a4b593c8", "463973cee4c688bb02198d89ba24a6dc" >>,
    << 7538, "d790c9c7114d4be6d689511296e090f6", FALSE, "2a5cd00ac1ceb426", "375e6aea", "99da6764214c1c0966c82307ebe5036f" >>,
    << 7539, "eef7e318f7173225ccbedc0cde2c8c13", TRUE, "2d698c85ddf94ea9", "8cfc0ce1", "442988384ab4db10eafe9666c56fbfe0" >>,
    << 7596, "0a6e0d45ee1af160f935ccf15e07af5f", TRUE, "5e717093b11fc56b", "d0705342", "14d220044a29f554d68d888016ab46c6" >>,
    << 7610, "8ebb62a563eff4a22b889ad85335f500", TRUE, "2a9709ca10328526", "db272d9a", "fbe50f5086a833798fcee9a5f38cea03" >>,
    << 7627, "86d894ef80a80e95d173453dff33be49", TRUE, "5e91d514ae87145d", "20a66907", "e6e88291ba412d65a79bb74887b85602" >>,
    << 7641, "6afb950a0ecb358d6d74987b5fee521e", FALSE, "532f6db4d99729c6", "bd780289", "90cee24958feccc5cfc256e2095d41d1" >>,
    << 7646, "237c39313705da0c328ed88ded16bda4", TRUE, "1baf8f8a31b8b95e", "8d959518", "eeff49d2eae215f3b813af78931ed0e2" >>,
    << 7684, "972754746f0ac4105de1d23fce1a14db", FALSE, "68d39f49a4b4fa69", "2ec25297", "f5a9dd903ece3a99d600d2938bd080e1" >>,
    << 7707, "f7595b1e493c74e193896a2390956aac", FALSE, "170eaf42a6108a2", "ac223f0d", "35b5fb9a15afe80ee5c8a9237a935a99" >>,
    << 7737, "1430aa6bce9f483d0408a13ae45d424e", TRUE, "e499364f71b7776", "e07060bc", "d34e19426e5c2d3a1aceffd2c9206bce" >>,
    << 7749, "41f27ac531615cd26700797b97e8ad45", FALSE, "50adf0e87487ac4e", "cb4fa1e1", "6b52a5525da7af82b17665253f48cca7" >>,
    << 7755, "65054f5864bca9ede51e2b606786df3a", TRUE, "7fe899819451d82c", "22ca2c53", "fec14581bcc0eb281304b8baabea8bdf" >>,
    << 7773, "5594ad7d11a45e4ee17da2a6243fdd76", FALSE, "6bb9d0ec229c0d1d", "10c1dc2f", "8f7c63f664d7f4800523c476209f0157" >>,
    << 7784, "d72a025cd5dd94ebb1b7372f7fc60f0c", FALSE, "13a678dcc5415fb", "3c398edf", "f2041231f81064cef86e564aaa39822a" >>,
    << 7807, "49becd97b32425e0acb3c2dc237e6ca3", TRUE, "2d0beb409679c1a3", "193a7894", "1cfe6b6621ffb3c41683997a68862d00" >>,
    << 7824, "50d235641a48e2cc06806813ac44562f", FALSE, "21c08f8f4f1930de", "1e7bbf67", "45d150310964f7b12681598ece741cf0" >>,
    << 7874, "a7d837f339ef7624df6b45cb676227bf", TRUE, "31c3744c317257c2", "e2049169", "5afcc85d02139e1070a23e632b441108" >>,
    << 7883, "a681067c7c21bac7f0ea33b70588a3cb", FALSE, "43b6ba96d826b8c8", "ae82c1f6", "5f7f45342605927436e4d409b9b305ea" >>,
    << 7894, "5e00663d6585a47dc9833768247d128a", TRUE, "3513d1dab49c9eb", "782ee204", "3a466d871869b3a4a3a36a0ab6dd1c4a" >>,
    << 7908, "4723ae08747c5b534a4f00471d897149", TRUE, "39598a26220717dd", "9606dbda", "d558f36fb91ed9e849a54b47b3afe395" >>,
    << 7917, "a2307944c32c8811a3d7e5b4d7e45b79", TRUE, "37ad4276e68bbf31", "e1a18e64", "e94cc26ccd2548fdd731aaeee854f51b" >>,
    << 7941, "06e9d76db214582fac690a3a6504ddd8", FALSE, "39e760a5676491be", "2bbe87db", "0711f2537377b3613e67454347e8c5ed" >>,
    << 7961, "5fb868abb32cdaf49ef6d8ed48246cb9", FALSE, "257e0b554ba00acf", "623b39b8", "cc24b163e2bae39656af13c079d7d646" >>,
    << 7976, "742ae4bfb66c1ee8a43af0d5652df289", FALSE, "199237f8cef6b947", "61b280d1", "c536ba61474bf2d671b98cc353da7bb7" >>,
    << 7980, "cc34a23a8c769bd766e1e931e6637f2f", FALSE, "187ca4501f96fd7e", "2b2fcd22", "74fbf5f60d4e0b03ca78db15014fa3fb" >>,
    << 7982, "6b3b7c66ca65aeae1b039c2a164aa756", FALSE, "7651776063573f90", "c4034271", "e36be1c5211da11415d1dd571c2a6dcd" >>,
    << 7988, "d1d03273ce12afe509e31f70f6ced179", TRUE, "7cdd6218ff37effc", "c2cae01b", "946271a1b09ce8fbe04578480c552b94" >>,
    << 8005, "b03b711623491a52f70df82601cdb5c6", TRUE, "eeca10c52e0a084", "44368c5c", "6d26997ed4ff840fa969cb9e675380ed" >>,
    << 8033, "e300d5694475d9cf0bb86d5199cb8110", FALSE, "7b03121127dd391c", "b553bdcb", "8534fdf718652fb3fabedc4d8e5bb139" >>,
    << 8036, "4b87e7352263fd7a54486c8d1c0f2297", TRUE, "166698ae0d880f4d", "191a0bd8", "161db57b948ec1d0545e7e819cda8034" >>,
    << 8049, "b4d3fb9328cd4ef6dc84a2e72730f691", TRUE, "d6bcda7dc2b96e5", "d4167774", "61765610656583c494370b59b8267053" >>,
    << 8060, "2be1f5b4d7cde4e90100f0ab54138d2e", TRUE, "3057a01605abf1d2", "b33ed7fd", "4a2e0da8c138a18134365910eb9f8a63" >>,
    << 8078, "662ac003a82c3284adc9b460bfac407b", TRUE, "3ebf7fb4cf63a1fc", "6f89a300", "f9ea125654d025fdd57a0005940353a5" >>,
    << 8083, "fae39359398be57bdebc739141d18736", TRUE, "170da474fa6b1b70", "8c8caa20", "e73e11ac2e4b13c3e16c3db53b6b2486" >>,
    << 8085, "57116e585a3c18ba2b7128629b344d73", TRUE, "3a5644c5f9750200", "c441ae8f", "a65d2f5d5c69c35374e7b3079f9ade89" >>,
    << 8086, "04ac02b23cb449f8c3e4407aee44cf03", FALSE, "14b399f1c8d4332", "4d828812", "c8f7d23e25e4d2df9beea9829ee413c6" >>,
    << 8135, "22b2dedce3451115394b0952c5d67c67", FALSE, "2b01823eadc35334", "4f7980fb", "e7563207a4e197834d38e859349bbd11" >>,
    << 8138, "d9749af33b6bb0439ca099757c855955", FALSE, "3572a6135f03225f", "5e25aa19", "7c6d9387df3fea2bc3d5cd049d1af5da" >>,
    << 8157, "d029aec8aa6f4fee3503d861f3f3a7f9", FALSE, "7cffe119d33fc9ba", "3509e2ff", "7e71bb7972768b78b0ef7e4e35be6e39" >>,
    << 8185, "9fbac684048da7c02509500eeccfcf11", TRUE, "73d3ba449bbcb0ce", "f5dd3b61", "2d5357ff5b74465b98d22ab76a2bb25d" >>,
    << 8186, "905b3368f81f6e709ac10a4505a889d2", FALSE, "49e49be8a68079da", "41ff9b4c", "3a1c415d8863034874005e5f58b692cf" >>,
    << 8199, "47311e503abe4934c4234588539c8446", FALSE, "4910f18a585f2486", "1db9e0de", "59f0450c007afe680dfbcf1b83a890ad" >>,
    << 8204, "08506e5c9901759962d4660d056db70d", TRUE, "7ad4b3eca09af542", "2a13f258", "6598896370d9766bf17595dc09674a0a" >>,
    << 8210, "286cb4e8ae48bef7d81aa52fa977d7ef", TRUE, "2349b3295ad4dd74", "80ea8260", "924797fb9d10d1d83b527b3b184693c2" >>,
    << 8212, "54749c5da095676b61f0f9c2396d6505", TRUE, "6d67c9a8a91b2cd5", "a74d3908", "1efcac8a4577e36daa8e077153f85711" >>,
    << 8257, "d03b242a920d2c5e43607247e9679e54", TRUE, "6fef422d17edf88f", "c553de72", "47f59d98948a5471b64c026bf9f65290" >>,
    << 8271, "4d0fab69c101c297366c6c9667ad3434", TRUE, "3480c33fa48b4ded", "3c2d3e81", "ceb40e6a6cb2f78bb2c6707faa48cd7b" >>,
    << 8273, "6e02775eb21cf60f981f7fbdcc105172", FALSE, "3dd7d106d15a0c59", "1275ce51", "2c4fec5b46934322d323795e88c7ae51" >>,
    << 8276, "4f06020782e9bad0e85dfa586752fc05", FALSE, "7cca6371f2a6ae2a", "844e2cce", "508953e9fa74549aa47f35cd9dcd2df9" >>,
    << 8277, "17612439689a4dd3c5e114d96e824675", FALSE, "1100d53a3f8cf18", "cfe43770", "4cdf51166e8472ae038e3c9c84956298" >>,
    << 8287, "e47dbb6dee04827445f260c704d72bea", TRUE, "44fb15860463f925", "af6e7eb7", "9df4eb6ddec50e10bd560d523b614c01" >>,
    << 8289, "6b0c82d47cd3bc99e971a481582af15f", TRUE, "59f1defebc4599bf", "16864434", "e381d2ce1fe41c774ed55adb8b18539a" >>,
    << 8291, "5fc2c1ad322233acff23bfe2907f1de4", FALSE, "600f1ddf1f976db5", "8b53a77e", "6bb63394d83983e1a2a5642fbfefc448" >>,
    << 8304, "347c10df583e591f821908a6c06681cc", FALSE, "25f82e4b8e381d64", "11ae0564", "49841e802a22c21a7fea4c71cec73cd4" >>,
    << 8311, "55bd29191b373e3e2d69092f7cff39a6", TRUE, "5ac1ca31c18e0688", "1c833b92", "a200f6d2a2c13100432abb249eed2906" >>,
    << 8315, "d368aa15f4950f83cfb8554008b58a41", FALSE, "20bccc179e79a06e", "1fa8a428", "32d64f7779f4ac717c3bacfabd06d72a" >>,
    << 8325, "06630775b6ac59d34d565cc9e2fd2f1b", TRUE, "563404c45a3a6adc", "2702645e", "9ffb37fb8a451690d358a36b231ac229" >>,
    << 8340, "b4cd880977e271a42b55c6d5abec5e2f", TRUE, "15c60f3a0ce1388a", "6f4692bf", "2aa8769bcb341c18b2646019cdde325f" >>,
    << 8357, "9b6da25faca95f8f2d263988f5160e43", FALSE, "4936518a0cda4a86", "8d588d99", "8fbfadb9dcbd359ad52d5a25f76ecc8b" >>,
    << 8370, "e28614c72619dc2757486e81618209ab", TRUE, "1bd5fe8ae88627e9", "3790212", "e18281cc0f079e1328f1f373041c0407" >>,
    << 8373, "b8eb9fda93c61c179f56c6470a6dfa35", FALSE, "33647c1b57f6c9c6", "fb5377b8", "c9679f50180449e79a7fd3b5512516da" >>,
    << 8382, "25269c9cf155366d69f2820cbf58737d", TRUE, "3e203ede3d4134eb", "c2e9dff3", "5bfad0e685c1cd2732a8f5e90253ca2a" >>,
    << 8401, "944042e2a053c85ec289a32ce69eb327", TRUE, "77d3682c5326f8b", "683c1049", "e8e60cd46efa604ceddc12ffff6a8178" >>,
    << 8433, "3e79b8299ecf1f013edae52bd84980f0", TRUE, "2f9b127b85f8f073", "56e7dfd0", "0bf6fa1f9173bf4cadd8a7b5f014cc1a" >>,
    << 8440, "ea1e198bd83c645a5ee1487e719f5f1d", TRUE, "4590dc819de1e944", "14dc4c47", "5babce2098c1326ef85e26fbd0d08857" >>,
    << 8512, "9dac0d9dbda8b8180daa90746e4d297d", TRUE, "6ed5a089c6159f7e", "c4ccb798", "97dfcd598b56ee65588420cd38d3f44f" >>,
    << 8531, "c6919debb82b4d429163c764b93e2d62", FALSE, "306ee22611b7037c", "644cdee", "7c5b427aeee707da3b4409cffb49b872" >>,
    << 8539, "f89fb1f7a83251d202f86ab6e4f4959f", TRUE, "249fceaf63c2b104", "6808dd8", "7079bb053c0f8236f84ee08696ce5366" >>,
    << 8581, "9de6e90b06c10acf49ebdf65a536f8dc", FALSE, "19aaa33a216312c2", "d121992e", "e364c6960dd7bcfd9e31093995825e50" >>,
    << 8601, "0b116ad715a57e1eb38ffeed71359f21", TRUE, "38700e95bab06cb5", "b23abc0a", "e74cceeda627a17b0c3f661f0c859161" >>,
    << 8610, "faaa25577fe9b3c1ff22c6ad2b0d181e", FALSE, "20cbf3229b56519d", "420783ae", "52f4d02af24ce0eb7ecc4e36f814d508" >>,
    << 8624, "c323d044aa877709121c0d47c930a4a4", TRUE, "47dfcc54ae942b2d", "2d8fe116", "23ecacc8b3b28379462774cbc2aac2bb" >>,
    << 8637, "d2786866d39a8a50ed1365d627934688", TRUE, "55e985f29a2de82", "757a15b6", "1a5ab8d4f15228ff9d1b2a3dcc5185a3" >>,
    << 8651, "f1de1d938bcfa58241c70162e150bbbe", TRUE, "43855c1f13a23fe1", "a15b0d19", "39607f639ac3dc6b66b4eb4857b39119" >>,
    << 8680, "dc3b403600131a0e46c43c7f4a758812", TRUE, "666540423e8bf13a", "58af2d0b", "b1825531da9be7a3939a32e244fa3344" >>,
    << 8733, "f64d3afe0d825b35def6f7131a47f42d", TRUE, "1824dc25ad23684f", "b9d6f941", "541a46c86524f2df20ba8bab2647625d" >>,
    << 8740, "09c2abc762b7185fbcf78f3185262748", FALSE, "6a9fc79e5b18cc16", "58af892e", "78ac473a3420fe778342d1775f3c6f83" >>,
    << 8752, "a3df54c813a3c5d654d191de213549a1", TRUE, "1b1270d79067e088", "d8d7010", "a034212c743758aa74a67f872c56ffcf" >>,
    << 8763, "332d4ac7f6a5f2d1cc2e82892cf1d655", TRUE, "342b146d3222804e", "6293b948", "6456060f11a7d12eefaaaaa483558262" >>,
    << 8775, "e994107767880251fa1b9a1446ab9b83", TRUE, "5065a902ab80c128", "f6bd4303", "49a568f214d01fbc37e91608cc7415e1" >>,
    << 8779, "bbc1534c93eb3727e36ef0caf0b8a37d", TRUE, "11451c279b2c4820", "a5030844", "f9d5a3acc8a04ca114923faad32da86d" >>,
    << 8804, "79e7ea1a30f9d2a40a06f22669262fd6", TRUE, "34e8df28ef81adf9", "8cd779f5", "97fe13d7838729201e5e00cd8434c79e" >>,
    << 8843, "6a4a9fa4d7263cb24087e64cf2bf9b74", FALSE, "77680d73de248c9c", "60e45e39", "2dc95aa70c4d463f24fa898a0f5de451" >>,
    << 8898, "c6bff0d28487636868d6239b4773a7e4", TRUE, "32471a621b48e8e4", "d16dc564", "279dcd75715d77c837a0adc975420451" >>,
    << 8926, "17414e5038b5f616774d69c527c34110", FALSE, "58ff881dca32450c", "fb6ad182", "e96365ffbccdcbc6699c3d08e3fd5535" >>,
    << 8949, "e30516085927823a87a44cc541f9558d", FALSE, "419fc869d232f205", "2ab45754", "6e87b56de244afb6707260685ae71dfd" >>,
    << 8950, "27f3ee6c7d1644d3a5875618fb3265a0", FALSE, "65de78f2adb62faf", "d62f8a02", "0ad2425d67f385fa0bebedac25e9dfa5" >>,
    << 8974, "be0ad83456060542c5f373b00ef453d8", FALSE, "7f9ca31431cce5dd", "1c568aaa", "e20d14537191426aced0623d704f1f3f" >>,
    << 8989, "8b73eed99604934378d58c830446c42f", TRUE, "11625c5fd38ee6bc", "ae0a9aab", "3d8bbbe412832b8f5610220d32cd357d" >>,
    << 8991, "ebdde6c77f7216fd9fa7992a0e7cc110", FALSE, "6ded086166c4f368", "ca930be8", "5c592083658eb92b8e5f8c6c3862d92f" >>,
    << 8993, "0c26fc12dc938d6aad75858f8f02e067", TRUE, "6bfba169304a5be3", "e69ac48f", "5e8f054cc75054eec3c2955ff8f57391" >>,
    << 9009, "242175ee532dd828a0fe440af4e9cab4", TRUE, "56c1bf1f4c77b21", "10c0fee8", "e5a5c6bd5987e6f5f3678c941d992b3a" >>,
    << 9011, "1159756353afcd541d00913b51dcfaa1", FALSE, "2eb32200d057b2d", "f4138177", "39ad9fbef5e9f9a33d48381abfd6871f" >>,
    << 9012, "d9e2165548c72d4b660081f8f553e8ec", FALSE, "6a6c8569c1c61f9d", "3016f30b", "32fc3751fe43261c2b00053b96ee1284" >>,
    << 9035, "6cc26ccff2a7b693a4799a4442c889e2", FALSE, "14fa998ba2cb2507", "e6829ef1", "a9d87bac91eb18f4cfbd3cfdaff3c7d7" >>,
    << 9038, "89e3be8aa3a87eaea2b3d4e2fd2ac974", TRUE, "401cbd71d1b952d7", "ed02f56e", "bdb248965f5382ac910222ba12d5f3a2" >>,
    << 9040, "07d4aeca0fe93253b78933e8016b5f89", TRUE, "3c3136d73204c8cf", "baaffd55", "9055f5d30d6830d400a27bd756426e2a" >>,
    << 9060, "ee7ac27b8d62985b434caa8096ee280b", FALSE, "3b5f87eb4cf0468", "931c5222", "3ea1eba0d61ac95a9a6190e9d05b5ec1" >>,
    << 9098, "55ebe9bdbf755f60e00e013c8d74bda1", FALSE, "446caf942b42106b", "10598025", "efd01797e9d5e44ac00b7cfb83421f73" >>,
    << 9156, "c41a784b2092b3ef19eaac81e465c93d", TRUE, "4e56f9f6b8ff720", "b00d76b6", "e5764b5cbb7f3251e3836c4bea4cdb2d" >>,
    << 9165, "af4aa55a3a3a40351e1f54ec547f5f2e", FALSE, "20d7bdaf2e6245dc", "4ac5dca", "b287abfbc51b9c7627ebee0b4ca9541c" >>,
    << 9226, "14dbd381916ff4bd83f7f8c1aeca154d", TRUE, "6acd809d93f0e5bc", "62b96474", "91b397a8b8c58a3e3fccba364795ec9a" >>,
    << 9242, "dd2762a214535fcdb7882f1ca45c01b9", FALSE, "7991556ca0f9244f", "30ce4da7", "f67063a4e19731b8a999038e8a30ddd5" >>,
    << 9264, "7b32435cc229a6ca4d75534e201a1b4c", FALSE, "67f85ea2f60bdf13", "888df4d0", "08026a45f1ff00f13c983f8a65e1de90" >>,
    << 9297, "61d90f36add9c59b0e84d4ff05823c77", FALSE, "4cc226c6978168b9", "d074b51f", "0953c60e3c8a7add087d199358418727" >>,
    << 9304, "17eadccc19eef01e342da100253065f2", TRUE, "3928747573d42d8f", "8dfa45ac", "c41b2ee8a23bf2c9f8cc16e07fd30041" >>,
    << 9318, "06969cb1799a33dfad2955d22fe7707f", FALSE, "3b36bbbc4467038b", "588b0519", "80e27287cec45e86384a4577f43f6010" >>,
    << 9331, "73565d02f84472fdf13b11c6c28f72bd", TRUE, "188b2ad38d97c40c", "cb2f185e", "80ae598773b61dbe5fc2a32b10c6d6a0" >>,
    << 9351, "4089938cafd62a3e990071edf27f2054", TRUE, "5a524c8c9d97b21b", "2e9b1e4f", "64b5ca66b174ee64cc92fc1c127a12fb" >>,
    << 9352, "8fc52d2c8980c9e4e53410908ba13f81", FALSE, "5b0cabf71d748433", "2f8313df", "63901474652005311bee06bafcfdb4b7" >>,
    << 9386, "f1f127e8ed98a37747aebea74eb67499", TRUE, "28f80f0b082cc9a1", "6ef96b9d", "3cff9a59a75cc343c3fc4cbb92b8346d" >>,
    << 9408, "ee389ca7043715a7949b0ae4aad495aa", TRUE, "6f4a607fd160933b", "901a8778", "fc85561c0e27cf888ed92198d84738bf" >>,
    << 9418, "d28fb0249752dd1594685b8552c353dd", FALSE, "4f816491efe5cd40", "78f9328b", "6edc591ba3b0b2d73d6164451cf9ed4e" >>,
    << 9421, "ee243bb347c7133ed17fb8aeb08b99b7", TRUE, "3d41ec5b396720d4", "6a29f45d", "2e07d23377200695d03bf167ab257c7a" >>,
    << 9434, "260137d64cf472115d1e71fc3a4cc349", TRUE, "54c6203d3d597de4", "65f0f64b", "282c828837d6e85e59e83ba42a7bfde8" >>,
    << 9444, "48be7e9ecdaee2ef4cfcc5d7a10fda7d", TRUE, "d2810b1a73246ae", "a0c81c1c", "7e77bdf4a36d7c7f2d1cdf9756ca7dab" >>,
    << 9451, "7c081a80596ec65317d058a27abce515", FALSE, "1405a456520980d0", "9b3b3c41", "6dce39759593bd4cc2b424472c98c29e" >>,
    << 9453, "6ce7326304f0d34b9e52b7160698f987", TRUE, "3b46201e06624f9f", "e07690e6", "6820cd6056eed63406933880a8ae3038" >>,
    << 9483, "728715e3a0052d6ccae2f5fd89a26c63", TRUE, "500b898cf32389bb", "fff7099d", "4b0cf2805509d153e3fc914e1f7d9947" >>,
    << 9489, "b8d388954f910fbaec01b47e65e9534e", FALSE, "37cf3965ad53db65", "85a2016b", "f74704a0d28840828d306fae16251580" >>,
    << 9491, "4c636c7638ac4f79a14df5b3c7d8131b", TRUE, "5d7210d861118d", "55543deb", "657b53e8141629a7f422da3723a8f2e2" >>,
    << 9500, "4f768c4f2e21207c0bad19f2b98bc253", FALSE, "a18ef487f1e3265", "9cb0096a", "fa42a77836b2366a323988c1cd22b1cf" >>,
    << 9502, "30b578dddaa85c60d5b7e4038cf63e21", TRUE, "142296c1f7ef1c8d", "58fea10d", "2e0853ad44d02f14bb85ecd085fa0ae8" >>,
    << 9504, "904ada7c84952f859e2e1c8d9607ec71", TRUE, "53d6142b5d69b660", "f8532a67", "4b9558e808ba2d2b93e5d47c0e55443d" >>,
    << 9526, "fbcc4b5197061e57c38640b44bad8417", FALSE, "39c7383c271dee84", "e52dddca", "cfa7763add682a141e723ce81606dc28" >>,
    << 9543, "f97656442799a9c665e408040f725154", TRUE, "34e052b0d051e0fb", "1a367194", "d3c48bbdfd1d28293f0b562e8b50b492" >>,
    << 9546, "211a95fbdfdbd6445e1aee3e569fb752", FALSE, "78527fef05f01a8b", "5f376699", "92b769de0b7ba041b50c1f50867cf70b" >>,
    << 9563, "34944ef7dda8396dd6b42ca4720b7ef7", FALSE, "541004ed57c72260", "d74d86c8", "d68ec855016d113d004fb2eef2713115" >>,
    << 9569, "5b6e6536e72f2d1bff71940f06820395", FALSE, "387bdb4b8dfc9425", "3d958b4f", "dba2d278297fb9f7bf2ef2015a03ccf4" >>,
    << 9576, "b5b8e8bcccf1352b1c92d2fb1f2fcf6a", TRUE, "5e6bb46b11abac2b", "f9a0558b", "50cf4f54ad5454b7a47c83c36703c083" >>,
    << 9582, "66a80df1acf9321bee5ec8a76be5204b", FALSE, "24f29c5ddb15862", "941aaa4b", "97978d9e09070b0654e46154cf43218b" >>,
    << 9583, "45da7bf072442c1d57e29a5fb4cdba46", TRUE, "7ab14507802de6ba", "a8e1b797", "0ead5c2b8e4d429439279d66300d033b" >>,
    << 9584, "18f9e7ece7df0bb089e29b0918d3f25e", TRUE, "619b531395ee9d3e", "3c3fdb6", "498310507833d617596c3d62b7ed2d9a" >>,
    << 9611, "2f0f2eb24abc8e2fb8520b8d9ca8f0a3", FALSE, "674235fbcb5860c6", "5f883973", "c61642ca96866cc80c0a496654d0d0fe" >>,
    << 9650, "c0ea7f98900ef2d50476b18252c5e417", TRUE, "701818e6d389545d", "bc8651cc", "c48e389a8a91135337d481fd02771733" >>,
    << 9651, "1b6ec6efd454bb5059bd02b8f0b565b5", TRUE, "2f89e618869e1977", "a88e405", "ee444b793b73b8adcd2316d69c83fb54" >>,
    << 9652, "7ebbbda0d3fd58e0020ca0f3e6417b2b", TRUE, "2b9f5e6331a4b09f", "aa3b21cd", "2cd8ea247bc952d5363eece03740f419" >>,
    << 9658, "605730da35993f74b95c54a8986e6913", FALSE, "7d6d3958ae59431d", "e52c772e", "16c08189111f5d3db824e6dc37ec7f3e" >>,
    << 9659, "17cadce7ddd2ef1f05b60320e3593d91", FALSE, "645fc19bfbaa0e14", "ebd91539", "a5058273f5c9e5d8e053b60b94de72a0" >>,
    << 9684, "3b0a7649d4dd9c6c2c4993f6a9e03009", TRUE, "365b8beda272827e", "eaec70d5", "fd7d7f4034192decfa3042c41b82c34e" >>,
    << 9705, "b361836fe093ed797b43c0797942f4fb", TRUE, "1c7498522a6393df", "74f461d2", "c00afdbb1d8ba3d1484921800931a34b" >>,
    << 9716, "c70d870d3310e377ce576f44ebeb76da", FALSE, "32bf028302acc879", "b78e4271", "dcf0cc6d5bbbfff7f38587449cbd8d4e" >>,
    << 9731, "d01c9f2262d34aa54089989bf792bb0a", FALSE, "3fdc6a15fea0c938", "83f73a40", "aced58f8e0971a1060a5776239352483" >>,
    << 9748, "8240002af031c25d1df9428b59751a90", TRUE, "3407baaed93771cc", "d822f6e9", "56bc608a5e2bb329b58131ef0d6a14fd" >>,
    << 9792, "5d9981439d46f9c18a272e1d994a9842", TRUE, "637d623577f04e21", "18d13234", "c8c6b3fc360bbaafd03cc1df64d79b15" >>,
    << 9808, "654352c66bbe6e8bd4d4246a44acacd7", FALSE, "740db0fc10d18eaa", "af3cd3e9", "61f6593691eecbf15c34ee8bd75612cc" >>,
    << 9832, "c55c7c877649aee93373f367fbaa8d81", FALSE, "123d88842333d0d6", "742103ec", "5837de438364a760f70b4de04a144dd3" >>,
    << 9846, "74c1eea667d82b2cf3c9c302b0e5981c", FALSE, "1a50d008f18cb866", "956554a7", "2ccc5acdd9c78914e56ee2d77ccb2eb0" >>,
    << 9864, "c349ffa4c36d45c1874cc6787e579e9b", TRUE, "2967902d878ce9c2", "39167f15", "ce40acb162cddfb86c9c69f149638d92" >>,
    << 9886, "0bfec660254c7fe821fcfa8c63dd0f20", FALSE, "4cc24ff742c2eb99", "668e2034", "9291e481e2303cc4f53b85a6aa150d10" >>,
    << 9891, "4a819b6a54a52ab65d9bcf67e9a18ec7", FALSE, "7a1e12236eac42c1", "68e5ace0", "d6288d2e50ce1112cbb905baa5644c46" >>,
    << 9930, "dc6cf3126e424aefb3c06ad49455aea9", FALSE, "21db2d7bd38b8751", "82e80d2f", "fc682d63f99845594045814c5f56b891" >>,
    << 9951, "dc6c97f0d2c71f7628f0fb1ac708cb09", TRUE, "317324faba108ec2", "746b65f1", "cf487e64ddc04c279fcaeda8ae47a6cd" >>,
    << 9965, "2c2f4f0da1a127104d380c6a6b31cc31", FALSE, "3d7dd9b86eb5f7e5", "df40e409", "c0b26c6a81468f78509bff4471fccfb4" >>,
    << 10009, "23a2c27acbbd877321e0b96aee0dcd0f", FALSE, "1cd22c446776592", "c152f4d6", "9a9d2164241b4d9ef9b217f56f423dcb" >>,
    << 10075, "ba19491198682bf7490b8adb424e4b29", TRUE, "73dd69da047f1ec2", "2fb7b89c", "0a42d88a111f95790314032fc8e0edf4" >>,
    << 10079, "5ef147ba7a8317bada6fa198f65fa5cf", FALSE, "1bd1616a31fa2625", "71323b47", "46464617524f0a948194c9e332cdfb5e" >>,
    << 10108, "e14377f11a48b9ed7e38f372c4280d01", FALSE, "7be189299aa0a32d", "2809b671", "cc44ffe6d836dc76ae67372af1f87382" >>,
    << 10166, "15de4685ae4f08d05d12ab1f2eb1132f", TRUE, "199b9390098e4d50", "25f9559d", "c1c66045fb5029fd8fedd46422a95b9a" >>,
    << 10169, "edbc2598a1ade8a564ac54008de1d1f6", TRUE, "ded7e25a8aecb09", "c73df6f0", "4fa7aa14cbce873ed25b40b5e7c6393e" >>,
    << 10205, "596c8fc4a1f19f63335ec3193634123e", TRUE, "468ebcffbdbf550a", "8ed45ece", "41aa87cb36e559cc29ca9e3931edc728" >>,
    << 10210, "5bf669adf0f6531ae7cd740e40ab20a3", FALSE, "36eb71f7643ade74", "f5ee9b1c", "599aa64a6c499dd9c50da67a1b468109" >>,
    << 10211, "ef59ac25ba663f807045579a6e660537", FALSE, "3b6719da311e90c0", "b1bf1855", "2745b0f2594f48d8bc6fd8241a537eb0" >>,
    << 10247, "17607ba459924783b7b7cd97f0f93599", FALSE, "5c5b8bdebe9609ed", "181758f4", "62ca113f83fb71730e5dedb6c3a7b569" >>,
    << 10254, "9b381c650a2114dc4cd006a754c05e2e", TRUE, "1c5311d92fd96638", "9276a1ec", "0f14def483ab58d1b9c0903748fd4ed2" >>,
    << 10265, "04a253f6afae395c630e93b7f041ffe6", FALSE, "49f618316bf9b771", "268ed766", "e0613dde846a01b1394959f65e6dd214" >>,
    << 10288, "1fddc9c5f153c72dc1911ea75d435071", TRUE, "6e6cf5c7861981e1", "58de427", "08f3a12ee66259a9c47d4b4fb92969b4" >>,
    << 10309, "9af71d22a1cfccad50cf8e835ab5f4da", FALSE, "51bdafef235c1fb0", "f45ed171", "9310a3936dde7af1e13f6bec278ec024" >>,
    << 10341, "caaa7b13eb39da93cf01547440b61000", FALSE, "5f5190a8a8ec8f1e", "e4636168", "f375b6677aa7470441ffb7b62bf30c7b" >>,
    << 10354, "e9858c353fe7c9c79bf127cbb90be4d5", TRUE, "68208d6d370c1b18", "ea4bfcd7", "2d546e1ceda460396fcc359b0f4195ce" >>,
    << 10413, "edc9aab95d7fe07ed236da0ef6eb8dbc", TRUE, "1c4de7c74c505ea0", "1279b043", "e18d9fdd6fca978e91faef0aff4d9b76" >>,
    << 10426, "78b6b4bae2ad19ec9f103da724a7c4e2", TRUE, "4317a8bd5222f174", "7df6aeff", "01e0e421c3b487eb3b6fae3425b8aa74" >>,
    << 10441, "e87627601f56d9f19c374dd0337083a2", FALSE, "9359d35cca273ef", "12d8fe44", "b7901ca9a01191870d50a55f081d4978" >>,
    << 10465, "1097c0b357567088f134bb38f6e31468", FALSE, "7274ebab1fee105c", "60a42f24", "4aa6f4968b24502ee1b517c310f89039" >>,
    << 10468, "06d8ebea9b4bcc3b8f5b512c438f5790", TRUE, "7e32c59326901c17", "9a0e0a66", "f55233ab725ac470acae87378d053977" >>,
    << 10497, "f7bc8e7be3e0aab3b299361eb12d73ba", FALSE, "1746be687144e857", "2c5b63b1", "319fc873b2e8cc70bcb1dad2fc1c02a0" >>,
    << 10519, "0e6a61fad006529ab1627281d8de9137", TRUE, "473c4beecc1e494c", "82a76378", "2231e66bbff6d1d00075a892278b8bde" >>,
    << 10546, "aaf3ac06217ee2f9d271d84d37f71877", TRUE, "5482d875dee374fb", "a6f538ad", "5ba9403d1ef9003b176740f4cf37e1ce" >>,
    << 10557, "215fef3d3099e173bc156384773f6092", TRUE, "53e1cda340b52fad", "d85184d8", "f471a2a2ecede932a896d0009ec500ed" >>,
    << 10565, "e69a3fbaf8bce35bcbcb9b01b7f65af7", TRUE, "48a4816d127a9083", "f5c8581", "a09fa350e652f46c97280f62d569e45e" >>,
    << 10567, "137de85bcb0be32f6ab63e49da0ee9c3", FALSE, "6633d5ab2ace95d2", "b9e3714a", "363526d6603ede13cd9128f61c2c1e27" >>,
    << 10578, "33069429c7090fceba49fc25e18381b8", FALSE, "603eee7f8a07379e", "aa2f7621", "c4845ab3d54c4546659a72a3210da4d9" >>,
    << 10587, "545e39573d370378f9c2d0e4a3e2916a", FALSE, "50b22f5bcc2f2805", "e3ff32a7", "2bd893aac552d91a0895f78aa65627ee" >>,
    << 10598, "07d9851ae60ae12b3214a6eb53e88b57", FALSE, "82370ca4ddb937a", "14765d3b", "6e2d26a25b6bfc01b49a387f4e84d6ec" >>,
    << 10600, "045b52e21f3b4bff2eab8d9f456c13a6", FALSE, "6a734a7a7fd8580a", "a002d134", "d07afc6b020c0627818ba0a3124af46e" >>,
    << 10690, "689b3685e4e4554925e5bdfa2c0b2e80", FALSE, "67407dd6d65b3cc2", "4db5d8b", "a210a0169a9eb3e103e2a42d75d904c2" >>,
    << 10696, "a04cfa30b998e8dfa4823e777df42464", FALSE, "1f083613dceb86ba", "4689554b", "9cc95906111a89c1017ae2a213de6d20" >>,
    << 10767, "544440f7abe9cd66ef9b6eaf608c954d", TRUE, "3a89856791266be3", "8bc1de52", "8875d887fdb5d184ce5060233f79ee8d" >>,
    << 10779, "7be1a1b0096393ee569bd00d8eadab80", FALSE, "3edcb64d880a3687", "80252bdb", "a22373506bc78678dba5bf8d05573bf5" >>,
    << 10791, "51000f09ffa9b9a250b596311ef439a1", FALSE, "24a5432f31631e4b", "c80ed8b9", "fbf2e3b6cf62e30426232c5ba046a474" >>,
    << 10800, "3dfbf76c9beedcc6ac739b4f2de97c0a", TRUE, "44e47283168a494d", "33812a7", "a10fab368ec7b53cc567574d1d117f12" >>,
    << 10846, "462866e23458e7cc3661d0be8210e4e9", TRUE, "6b004b8f7d6ec151", "693f1ca7", "5724bc1ac879b7afed8e4c230fca029a" >>,
    << 10856, "fef695029adf242183e671592ce0bddc", FALSE, "df4585361d299fa", "415331dd", "bdecebdd51ff22d3f5ff953aeb98a6b8" >>,
    << 10881, "6c7b1170ad9d67d82265a54d0bec9109", TRUE, "effe2a9e59539e2", "1d844e6", "2ec236dc4db2001fb0d24e95dffb8791" >>,
    << 10897, "419b86171e77ee7b7fac8052734eec6a", FALSE, "1073faf17c12524b", "c1c24a2f", "af89cb37f915c027009427019c0bd052" >>,
    << 10902, "6cef63ad6ad788b8f5a61597b2357dbf", FALSE, "2e7fa08593e9fe09", "7918cfdc", "42e3e3a8a1ce846c66ce01815acb0e89" >>,
    << 10913, "71b63e06b2796094f83d767717f774d0", TRUE, "781faeca1f26bd4a", "1142e77d", "1c59b5284c00a2af588a65adb45b5bf3" >>,
    << 10928, "52e3ae9fb298646b1a2899b380665a96", TRUE, "470191334277ca81", "9353eaa2", "89df5cc9367870d4830e80e626f844d4" >>,
    << 10939, "f170635a6a61460a9f39906b88b8f8a0", FALSE, "4c08fd851ee5bf62", "db38d6af", "dc2901162505222b276c90fbfe642cd7" >>,
    << 10941, "bead1b5035bc1a3385bdaffede5f6b2d", TRUE, "7259263b9f72f17", "edbb6053", "9996ad006be6e3e181d03dc3f531ef42" >>,
    << 10964, "6b1eebcf994a1683aceccb66add0e5ce", FALSE, "6da2fae42c4295f5", "4e36474c", "5110bf673c60ba0fc6e76863d134a6d0" >>,
    << 10975, "6a5d954cfafc2e07f59a1e82a80709a0", TRUE, "7ca584b4d5417174", "e0cd2c57", "29c7eba94e9caa68b30a0a3e3e0f20f4" >>,
    << 10985, "632ecc4534dc27e3a7cf4e0cdd22301b", TRUE, "71cbeae880875084", "26dd6f6a", "b4f474e5127c106a2c9e4da87e9a2cc3" >>,
    << 11018, "d13cea4e5c46e07414c679709a759c48", FALSE, "c4c66dfbddb69da", "f1ef5ea3", "954873adfd71799ff96a711d4277fd13" >>,
    << 11030, "79fc70f75806d12f3ecb3257284fbe17", FALSE, "47a57a88644ddc90", "b68fc94c", "39fca1fc0e79a958f689d17817f8ddbf" >>,
    << 11088, "8af4f43ccb6d6df697a787ca2899a5fe", FALSE, "534f70f78124f20b", "e4d320dc", "b0fd771a11b95c510ddbd104f7f3b609" >>,
    << 11100, "4a9b4f54194128467bf1a648c4204fa1", TRUE, "45e59ea15f98dbad", "798022f1", "e24b0bdee1f54f62443d1a04bc2a9571" >>,
    << 11113, "b8b8f463ba6cc7ba8468067ac05cb3d7", TRUE, "37096d979318b2a1", "87cb22ed", "5ec6195a38b3670b92aca1f9f202f516" >>,
    << 11119, "f092f10ffb821261fce4517169f03645", FALSE, "8c72b3e6d04600e", "2bbdcb5d", "bdc8af485ae80729cdab30eafb2de4e4" >>,
    << 11161, "8d9179164f0846b572336d1f22ba9645", TRUE, "6aedf6b681dd3132", "f5d42a1", "577ff6314eb6e8cf1b8178eb46e909e6" >>,
    << 11167, "0a02c9f90a35d142696a9de6b8037a2f", TRUE, "344d2f09287fe344", "ed6012d1", "a0c3cf0d4bd8f08607800a686d696bd8" >>,
    << 11182, "6569e26f844044111bfa31b159bbe7ab", FALSE, "18746ef42a1f7aa6", "cdfceb26", "e3f8a10b40d6fea88625b49fd56e27bc" >>,
    << 11192, "700e3ad3fb5aa1750981c9ddfd40fc06", TRUE, "43d711f6a6a11ed6", "491f58d6", "855fedbc90fb4dfc0a0146d9b4dde4b8" >>,
    << 11229, "d207d3fd9760b5c8c9003a1058c18be2", FALSE, "2233fb16726453ed", "789eab11", "f767ceefc7c107f73e053b6d104229b6" >>,
    << 11241, "76efde108c49b776ec85bf07826074f1", TRUE, "342f96b48f9bd69b", "6b9e0cd4", "45ae8117dbafca529f7e9593cf59acea" >>,
    << 11256, "3bc425dae2ac320dd453cd068bacc919", TRUE, "33bd12b233f37ed7", "2f01fa82", "e9344af7db0255bb62f8bffb798080dd" >>,
    << 11261, "355eb3a85a7c21b3caa4085b78c0b145", FALSE, "2af0da80840aff82", "b0e4edd8", "748352d827d9d8b734e60373d79b70e8" >>,
    << 11298, "fcb2c2e9fd48fca7bd9b5948cd544cac", FALSE, "579e9624807e5c8e", "d8837b8d", "b03b84092238ebd35f350d2358d2596c" >>,
    << 11317, "20a0a0b634a19e343c71d3239bbff9fe", TRUE, "68f43a2206fe6864", "c77c5d64", "566dc2addcddc00701d4717d1c3e9b6b" >>,
    << 11328, "b071004eac96a46a1e49d517e664a44d", FALSE, "46a40de27b642569", "430599b", "bfdcfa489a0556b797e22ad2bd791ac3" >>,
    << 11335, "f4f580ac56e18b222a657e6376f0740b", TRUE, "629ad3bb55a993ec", "f4edba71", "9437b3f4736987820c0249088a5ad370" >>,
    << 11352, "e7d5a6ddac17e7ee7695fb07849c12a8", FALSE, "7e0f4065da743c7b", "7c0cc714", "dc9ed94699f602e13ed0025b645a1d5c" >>,
    << 11360, "fba5a85e4acb85ef462f2c3b6495018d", FALSE, "632e61d3f0c8d8b2", "5ba88751", "4440a25c1cd1e16ed958ec112d916132" >>,
    << 11361, "3b02442a1f0ed25297ffe3aaea8e1685", FALSE, "79931122b77188ef", "ea47a977", "584d4b05a505654104b77e42a266e05a" >>,
    << 11384, "c5e730942bc44580264eeef276e50532", TRUE, "77c2b81c8d71751f", "e9c5c20f", "1437f76fb6f0040a7bd04784bfb4312b" >>,
    << 11389, "e91845f1f4c886340d2f9c2e9d5710aa", FALSE, "16c5f6412a234d17", "ebcbe0b6", "9e33918edaa71d0f7555a4d53b83eb3b" >>,
    << 11420, "17333df193d5d286a497643d2f5539f4", TRUE, "6f9f20c4cdbb5d13", "d75e293", "64e6b1f48bf9e5683ce2b84a3893514b" >>,
    << 11473, "5454cdd7f08e19781bd94bd9cd96b968", TRUE, "4caf9c9b42275fbc", "ef8b36ab", "22c8eb733ccd56126a6179573da9d41d" >>,
    << 11475, "1b65f75bd3dd88148be961edaaf7fe8a", TRUE, "7704d97e107d538b", "b53e49f9", "c880e3470f23dfb89ab0b5c3b9414101" >>,
    << 11496, "75e61e72a34cc4c41413ad4c27123a93", FALSE, "75d0813bac5a96d", "a51338b6", "8c01518c6b6bb071dd62cba1dfe9d2c7" >>,
    << 11520, "acd72ea60f37a2dc902a0445ae05a061", FALSE, "3727a2b771c66c19", "3a530b9c", "8042b9876092da8c98f766d14fdb2563" >>,
    << 11522, "1c7733a911a5d7fc4445d5511350ff50", FALSE, "798c3d09171989bf", "8b16c7d5", "988b0d717b1c0041986c5e28024a67e5" >>,
    << 11630, "8088c79c0499b5c213d5d43b75846ec1", FALSE, "26f3ca39a5d8ae4b", "23c74daa", "2042ff6697c24321390fcbb33a66dbc1" >>,
    << 11634, "ad338bbc2aff7676aaedde387561db0c", FALSE, "271e3cdc880fc357", "f9d8fd03", "7b594ba80743dc5d00b66e022a339b3e" >>,
    << 11670, "1ad43578e86ca5d55f9253c0a56c3f3b", FALSE, "6d27dc0a151d7306", "7f8a2f6c", "92cf5c0d66abd22e6490668c79c3d819" >>,
    << 11673, "10d98d2b574f26b03747ef8dd69ab8e7", TRUE, "1ad11653bf805406", "95ad5b98", "21907db3540fc836215061010431117c" >>,
    << 11729, "55d13db1aa37f2d388cf657e2ead230b", TRUE, "3792f7051a13b123", "93a578c2", "7010b8bc51c58c317f18dfdc36f6f383" >>,
    << 11784, "2fe01e724c426868cac6737845083865", TRUE, "5c6f80fcbe0904e5", "585a3294", "3b6bf9c652a6c45d316c7d7fade2dfcd" >>,
    << 11788, "2d94fdb353a6282241460ce08a49b1f4", TRUE, "17d395ab238a4b8a", "cfa8a0d", "77459ec133616816a93b3a656a96e15b" >>,
    << 11838, "c1b8d946574a1d90c0c2d8c600edf695", FALSE, "239aa7285ff228df", "5e97b39e", "347d97e55746450c80482c5adc3376fa" >>,
    << 11854, "de1e9f97a1f5032a352e98e05048b3ff", TRUE, "435548e89d855898", "6d0d2550", "0272a882b85fc9581ed1278f0d3f0fa4" >>,
    << 11967, "2a5468826c5e80c20bfbe3dfeeea3858", FALSE, "34467d58de041f55", "68cb72bd", "df8025c571d2d868989dfea49c37643f" >>,
    << 11992, "99b5730a1c4398489c2eaa2ce50f049c", FALSE, "bc9021a7868b271", "5473e3ad", "33eb6c65a9bf94d28ca2ab4c295c9b20" >>,
    << 12016, "a4a49220dc9326a329849897e9e19c45", FALSE, "5aeeef3fcc2b1756", "fa403771", "12d436d2af75d34d0efa80c2881d8e5b" >>,
    << 12020, "79322057ff7eb8486ff5425ccbd8d895", TRUE, "27cf692b88c6c667", "c1642395", "62126b2200d85e2f2bddfe211536edf3" >>,
    << 12037, "6a45ec3ae0607efa31099827a083a1d8", FALSE, "26fc7634184bed87", "b93fd585", "f0fb9b3009c2e0568ad63bcdb5994500" >>,
    << 12043, "bb70f67f359ac04dbcf2e0ad20beb5ab", TRUE, "613c37bdf39eb7c4", "5aa8333c", "5145bba250252ca86de603e1872bdd06" >>,
    << 12044, "a27a238f63d1f782fc6ccb3424ec4162", FALSE, "c0e2be1c7e83547", "92022629", "0f49a69e31675e11b3cd6216466c2c3d" >>,
    << 12049, "3ce4e79938d897d6ef33788e4d0235a8", TRUE, "240dcc10c7b16638", "2502ab79", "0ffaf286c8263a69af4220ec3ad010d3" >>,
    << 12050, "59942ef1d551d87cb75d86fba1ca46de", FALSE, "63ea0930c2dc4377", "c8edc9e", "0fb72b9f8a89b6c9dc77358ac54a9ce1" >>,
    << 12066, "98600b9a7f612a2e3684fcb9ba72d89c", TRUE, "50918e5eaef46dc1", "ba516b05", "ecc32310918166351c6250b9c1e8d466" >>,
    << 12122, "593e846ff8497ef32e9a9fa3782b8fb0", TRUE, "31ddc799763e7c66", "f0d314cf", "068b94abf0161e8cb83a9af0d2791a12" >>,
    << 12157, "933cb8c26f497fad794abbfa1ba5598c", FALSE, "6e48d9982e747a9c", "651c4310", "60648548e1c84aa46c2b5af000d97e0d" >>,
    << 12172, "7b3f8c6c55052997e8316867811d360c", FALSE, "6bc0b9a6188db108", "e64a99af", "9ff4e28ccc7335fede9fb03383686056" >>,
    << 12178, "5f7b6c21eae907cbc25c144c4baca029", TRUE, "2a285bf34b434140", "9d551214", "428850897224413196a7a481acf2607a" >>,
    << 12214, "2d16de2974c602d133f792a525014a83", FALSE, "393b6d7e8dce5a86", "e777bd9c", "040d385fedfd7152134d48f979333295" >>,
    << 12255, "84652ac9471833dbbbbc06220107b3f1", FALSE, "11f31e9074b09588", "ff2d6fbf", "53f13c571076ad86f71d04ae4578aca8" >>,
    << 12256, "5b8806f0eac8c1edc1f125c1a74280f6", FALSE, "226c065aa383c2c6", "8f63685b", "3ae422b2c61da3fea8eeb5f0e40a80f2" >>,
    << 12262, "68dd913b55b35c5920a44531cbc86edf", FALSE, "1079b50ef9a3a27d", "3437c3b4", "6b937e1a447cfdb70a49c692b04cfcb6" >>,
    << 12287, "ece6446451b87d07f1c859120db9bc2d", FALSE, "3d2babc47d279e7e", "19e2b5aa", "f5a6c6542b7222f09a668ed37b70d2e7" >>,
    << 12344, "f5dcbed9d2deaedd766a470d62ad34a4", FALSE, "6fe345af127a263b", "7d9a9c32", "4594d25ec9d25ad88b7d30b6959ec358" >>,
    << 12382, "e8bb6c4a9c4b3de748ea44012e8be93e", FALSE, "5994692394dcdc4", "919477aa", "29329bfd5f0360e1eaecc6216daad821" >>,
    << 12399, "ae1b680a6aeef77ddbeb1390fb25b0e6", FALSE, "220b5f52b770da1e", "f45abd0d", "03c77eea9313e238952148152e6300be" >>,
    << 12425, "32ef9972d92ec8758a7a95fd008ebb22", TRUE, "4012d50b2780bb2", "9f49605f", "52a90536f32ab1b4301801258e5dd284" >>,
    << 12437, "accff2d24fe0bc60ca3e08c25cad24f1", TRUE, "336e66e381e905c3", "15e7063b", "32965c88b6b5f59a90ba9f921577a7eb" >>,
    << 12443, "1ebc72b386271ad340d98ef77ed60763", FALSE, "3ae16e3afb77c6f3", "6ec834a1", "a868c0e00ac2097ed92e13471aac1565" >>,
    << 12463, "142e9faff972b65d18ae3dcf88b5e33b", FALSE, "15b06cdfcc114043", "f9229b04", "cf7553545a02dffd520c15b635bd69da" >>,
    << 12465, "8ffbb5bb076f7bf480276900dd354873", FALSE, "36fdcb0cc62ac4d5", "15ceb8e5", "fefcbbe187fad1ca31466581e2520e5a" >>,
    << 12508, "4d847e37d88a9ce4b18173d2e970e25a", FALSE, "405e2ade450edaaf", "3a438223", "dd586c01fcc36b85a22a37bb34feddf1" >>,
    << 12519, "829dcd695c42562d22e21044dac75469", FALSE, "1f883f0692255047", "d39d660d", "1265d8543db7a903b7b7839b37bcd6a1" >>,
    << 12521, "aad9b4f227977ff04ba7769746c60894", FALSE, "267daae0d431910e", "c63c0aa2", "8b221f5fb2cd73c05a2bbdecee99dd55" >>,
    << 12534, "e23854cd4729bf4612991f5c94357416", TRUE, "3089b91387783f49", "937fecec", "6e10e11246ae12cc2127bfda8cae040b" >>,
    << 12556, "b9ce54842122ac2cfc329c34e21da67f", TRUE, "14affb75c01ddbb6", "c1d2b269", "5a706118c79a237756c2002434652c34" >>,
    << 12562, "d597b6c111be7989f25a8770d49a1a11", FALSE, "cab3e0e577ad317", "611b85a0", "18bb67f8c5789dcbe49c644ccab969e2" >>,
    << 12566, "e31ec45b9e32c1b92d0101f32cc252ca", TRUE, "ca5ca1a31940ee7", "f1bd1d95", "352cb75a3a14c5cb5539119c1ce07992" >>,
    << 12576, "4beba12a815ce39daa67e35460a52fd0", FALSE, "735fb5e3f1b5c48b", "31ec0fe", "b2d7a4bf504e9c5d9e62a0d5aa28f2a0" >>,
    << 12616, "3b2c019bea40ee62f83a89f7bd1a1b16", FALSE, "3c574ac76c44c854", "e9a17c1", "28182048a7e53373911e2bdd7d8bff8f" >>,
    << 12674, "dad9d9ab4622f8f4b42389a8a4dfcc75", FALSE, "4bc0e0b7f4a973a0", "bb43b259", "ee37914564bcd936cdea6a59e0ba10fa" >>,
    << 12733, "2294638eaea8cfede2b18d175b648b97", FALSE, "4953a6ca040f094c", "c4d53c2e", "4b3d153927834bb8d13deee3c53f5e2a" >>,
    << 12739, "6a1ee0c3ffb76ae500766f4317fa9f3b", FALSE, "62efaf0a1cda9f78", "402f0a34", "0676d458893c85e6e75f382dd24478e4" >>,
    << 12741, "4b2fe2df3cf6ff8829d2539fb64d042b", TRUE, "26c277dd7ef6d3bd", "a8634bac", "5eed16420c9dfce8722b5cead0211160" >>,
    << 12771, "b98402623ccdb7584de82b54bc644dab", FALSE, "5f2d6a1061839364", "4a896c1e", "2be5a470e26d53b15e1b5080291f4962" >>,
    << 12774, "781f8194b23370ab8bd746343b31dba1", TRUE, "606e62a70a430638", "29adc319", "a4804c4937c2d5d38612508f47aeff42" >>,
    << 12794, "05b01b3b4a1ca3c4206e1ead59a58f0c", FALSE, "7b8a6bf949a233bd", "bfd3d72a", "361b1ee519b4510b7d927593df982403" >>,
    << 12807, "184855e436aaa9fe09b0141ec46fb5b6", FALSE, "77266d29c831e1fe", "a7264a4a", "c892737b15cdafef7d105a835f277e8c" >>,
    << 12809, "78b0459ae77e8339a73ef94fa9338bd4", FALSE, "1a861be04e5831c3", "d50e1a1c", "18ce84b2e638b9932b4b91d2bf06e137" >>,
    << 12817, "480309e857511a47a075eef9f6c484b5", FALSE, "46d719296bb2b0d8", "7de1c9cb", "b54dcedcd15983ce0c00020b581a45e0" >>,
    << 12821, "244b7450db7a158d4be761517de349a4", TRUE, "12ac74b398b14ba7", "3448cbb1", "f4c6d28d7ebff47fc9e62b376a12f618" >>,
    << 12873, "a30ece02f334b158322658f25fc357a8", FALSE, "5890a1524a824c84", "eb5888ac", "528a517dc6fa69bbdd3beec052a3a835" >>,
    << 12889, "f3bb395495a843c942a8c15ca61effcf", TRUE, "18809ae58d1a18ce", "fb23da57", "662fd6d40fdca068ad477126a99cc51c" >>,
    << 12920, "95ddff2a41cc7733f7b7f33597bc158f", TRUE, "557fbb2b232b613c", "9bfc320b", "4c3b66ffd79d968e39c9ee038b259955" >>,
    << 13012, "17e9327d2edda5966a001edb364957e4", TRUE, "412a60c21174b773", "2516a32c", "cf472b4d193c3852951631d93f4004cc" >>,
    << 13062, "fa52d1afba6fc0bb6af25335f078fddb", TRUE, "49e1c3c6e76896ff", "36774802", "1531fc276fe8dcea7ec3d8b5866a8b2e" >>,
    << 13065, "2cf0f30f60d1a221a9c2667064eff02c", FALSE, "3b7bbe41a98861fb", "54418eb3", "f932eb08e48cce2f28d881cf8646b77a" >>,
    << 13071, "d6a95b309404ab3654d6816d4fb7b996", FALSE, "17da54c865a9bf82", "d37cf5a6", "dd9ac69503417f898905d3b4f7b58ca2" >>,
    << 13100, "ed845cb52fff337e4c0aa09c44d691ed", FALSE, "44a05e3669e6dbea", "f65372aa", "89c3cdda513b7870d0d24dfe021a44c7" >>,
    << 13105, "01d640438ed7a36fd24b487d7717e37f", TRUE, "69ad5acb6f189332", "9e4b57de", "fcda88a35d7a4b260831d40d92a032e2" >>,
    << 13136, "11dd9ebf0e5d5ad23c0a2421fe161f20", FALSE, "9609914860aa40c", "142455c0", "741e2a8767193fd56516ed5f8dd5f7ae" >>,
    << 13141, "3ee14b7f9c0a707dd99a174bc32f41dc", TRUE, "45cd026c9e1c3291", "898f78c7", "67c37a6c409be1ae18b16ec10c783ed3" >>,
    << 13147, "67355a1c66666f02fb7ac90a4aaf2c69", FALSE, "630f30180a6f5335", "614ccf61", "8d27400d997db80c86dd39785c934af1" >>,
    << 13164, "21398e5ffa432f8ecd0f3693fb95a98d", FALSE, "15f7bba9bca170fb", "62552599", "fe192b4fa8fe5a200398267192bae974" >>,
    << 13177, "49a14fa6f978c1437507ceb2f7174ea9", TRUE, "6ce3c3a5376bd238", "248019c0", "728d01377aea2b21aa9e5091d98a6eb8" >>,
    << 13204, "9bd02875494f21569253262f99c76008", FALSE, "7697479a3f84b60a", "f1ff9088", "393df0db7b5894352f29dc8bf9de9bc6" >>,
    << 13206, "e71dd6061b5daabdd9c6901d9930f942", FALSE, "5292255b8b2838f4", "9583b86e", "20136656cea3309fa80fb17bd8bc466d" >>,
    << 13241, "3483b5417ef0113e6d6634f5e35a7e2b", FALSE, "6285ec6f06f757b3", "2015a84f", "d105d43a5e2061f99f6ceab5ce0fe076" >>,
    << 13248, "d550300a98327142797932f97df18d4f", FALSE, "1716f4cae5157b8f", "f07ab357", "046e6517d987d411836660a46de43daf" >>,
    << 13250, "99520c1c5c50b7b2eac6ddf5a9267c75", FALSE, "7395430655c7dd1f", "8b64b388", "05f442d29878b76b0e2b0e697cb58eb6" >>,
    << 13253, "eef5d4201ea1cd48885f59e44faaef40", TRUE, "7120518181eb4d43", "f17f6920", "8174e2b149410b8886afbcf40a2602c1" >>,
    << 13262, "4c2cd67d98cf7be0de8d790fe4dae95e", FALSE, "7eba588b80f072c3", "c32dc746", "e07168afcf475849abeeff369f31a093" >>,
    << 13278, "769b91eba2922a34e8bbf1b8e9fc72e8", FALSE, "117cd104cd6cc222", "cfaa0917", "0d9e9154be3f5b93b0ee1b77cb232e76" >>,
    << 13279, "e2aebc4ff08d06f95c8032b4624be751", TRUE, "423fd9d2ac21725e", "81cd90c9", "3a75c0e415317888ac317c4280aa06b6" >>,
    << 13300, "77a70b2ad45729d83d220b9a78c93c23", FALSE, "3249bd882179dd37", "9b0e5067", "7bbe3c2d125b8e67906c12b885cef0a1" >>,
    << 13323, "4f4a0a559ab2a190f49f7c5620ee7366", FALSE, "6456cbcc8f5135cc", "c6e8470d", "b09fc7a82863ceb64e491b196694af97" >>,
    << 13337, "d7d23626dc86475e657abdb6678ec992", TRUE, "76ed7dbb62326b79", "aa9cfa06", "64420a7a56e3f5f8c9f1e2d12ba66bcf" >>,
    << 13378, "e9619b052c842da24301603f11c80bff", FALSE, "2eadc483d0060560", "5bc9df2d", "0da93a570b80d9577af259f4a3771e3d" >>,
    << 13386, "f2827ef3b647e701f84caba53cea1e16", TRUE, "c35569241e60420", "6ab46bf0", "84ca0001091d588035fd9fa4e4e962de" >>,
    << 13393, "0a66e4915e68cecd98dffccdba9b8088", TRUE, "7f272b06db94d250", "a7b53ebc", "19799fec67590ab3b27cbf276fd0d118" >>,
    << 13395, "fd61e00aedfa76f52c453ca1ae44fb17", TRUE, "364416e119719235", "371a369b", "9caf06ba692844ce9b567a58ba3e31ad" >>,
    << 13409, "dcd65a38b8fd16683a19620480d61011", FALSE, "2b8af578ab82bf4a", "3491a007", "5184205ed560b67a7dd76b83db1f0445" >>,
    << 13413, "3134590c111075b5857e8dd646d3c75c", FALSE, "6db359b720115569", "58f48374", "e6e921332ae8e5dfd99f0950c5791ead" >>,
    << 13429, "61b27ef1c622adf1dfc68f1845b55004", TRUE, "624baccfca4d72c5", "bd562783", "f7f94bad4a05a5501001ad25e3043206" >>,
    << 13465, "32d3d4f058fcacf349ba7f5dc25364cb", TRUE, "581af9ff88a244bf", "935c14b3", "087e06bca1dbc4852daf70ffcdeefdcc" >>,
    << 13486, "96cd3af61a7a0332ef77da9064b76786", FALSE, "2824f1058638632e", "e67873c4", "5611509efaa23ea6b1e7fc4665caaac4" >>,
    << 13488, "df93da892b6217804e5f3aa564c5475c", TRUE, "6546c4a6b5450802", "69ad57f3", "8f0ccdef94bf0f582dc440268416d9b4" >>,
    << 13524, "92fcb890b13b132498040281b5f26365", TRUE, "51431b7e0850ebd6", "d50d68e4", "80298203b9b8366f6b3572fb54d98553" >>,
    << 13539, "427f0f4792d9ba346ae1db3136b19e71", TRUE, "4e4ac7d86d06af99", "b3c6e9d4", "383081a8118bf9b83d281b63229ba1fc" >>,
    << 13550, "3ebd15de879d16ff2d749b2cf88a6b5d", TRUE, "6c997e077a0e59d", "c62f5271", "b2dd5add2c307c1114129b8fc18d72cb" >>,
    << 13626, "92b34810eac9fa201d2dd41cb4c69eb3", TRUE, "701feab3d0f685bb", "8d6a1bb6", "100fff9294f6e1e477ca513f845a576d" >>,
    << 13650, "ed642382c9efa1f8faadc424625b595e", FALSE, "670340164995995a", "7d293ff0", "addd2035895f99dae2547c025bf7341d" >>,
    << 13726, "10f888a9bd961ae701427656a2663b0e", TRUE, "44e906c6ed22647", "b3bd7d8b", "ac884791b56636156a948b81fc98f97e" >>,
    << 13788, "39f090ab01f24df53aef80c1cc3697fc", TRUE, "50bc4172e82ae3bd", "f82f5ba", "d8f64ddd057960278abbb3782af94288" >>,
    << 13791, "22757baa6e03f430e3dbf93ea0ef06e5", TRUE, "7943f1708106be6d", "738c0a58", "8864235d9a74c1daf837c18baf65c1bb" >>,
    << 13816, "5e80b60ee2d7b4f0adac5ad089046ee5", FALSE, "20c3a36e93cb8766", "bae27e13", "ec4872041cec0507c3e517686b6cc307" >>,
    << 13831, "8a0aec65eb85f54d520620fba86e8bde", FALSE, "255a892f0f3aa1df", "28856462", "b43a073f0ef27381a0471e1f2691b4f6" >>,
    << 13854, "3ac8d831fc0fc7150d9581fbc8a5c034", FALSE, "4e57607006e77e54", "cbd3df8c", "72832d2f39d014834995abcf3ebf14e4" >>,
    << 13855, "e7bcef7a0dc4dd7033f00a745558179f", FALSE, "7de1bd3038ea4f18", "52fa970c", "991ca478b0cdc1e453e7a1b445eb59b3" >>,
    << 13858, "32c4fe549aefb85d1db7bf208c81a310", TRUE, "5788c80671097b4d", "eeed482f", "e88b365233fb31651350d51c644ddaef" >>,
    << 13877, "7d2fe21d8a61fc1fe84a8a7e6cdf9501", TRUE, "2982664ce055c6c2", "54d31757", "907ae1bcfd076481ae8000d0f8fbcb65" >>,
    << 13887, "d876c021b8cd329b43385d94c8b4ef31", TRUE, "10213db0ed263e8d", "91fde3a9", "b298b1fb3c7c2686bf41475ab84f768c" >>,
    << 13909, "5eb36f42d9ff5bebda83a3da7f99d43b", TRUE, "4a6e242ff25770d4", "c9719b6", "0713e61884d661c99a4d86b683eabfad" >>,
    << 13916, "f9162dc34c69d688d0c84c11427136a7", TRUE, "561b753d692d480a", "edbb6930", "30478d6f2bad9b635ab9afa3d6641860" >>,
    << 13963, "4963593f589720c35137c954e3cca0a8", FALSE, "ad986e6074d383c", "bd3ed9e4", "d5e21b9fdc3d453ba4257c47c4a9cb9d" >>,
    << 13998, "8c8e9c2e21572447199148a57186a377", TRUE, "7e252fa1e63c8880", "b8940a32", "4754181879e56a6dcf0f95c711f2d4fd" >>,
    << 14000, "f9af30cf74383bfeea2e2cb25c9493fc", FALSE, "5452e7d1037b367", "c1b05b3e", "ce7fb415db8d7d9481efd4eff09a3416" >>,
    << 14022, "c3726e4c7e41ea5534bd6d326fb412cf", TRUE, "3e8b40e2ae647ebf", "f5275acc", "de71753a73997d9d6156001f7110617d" >>,
    << 14049, "365cd1c5d530b6f4f694729211f22566", TRUE, "1813ede7eb3da857", "cbaebfb6", "1c9cf08ca46df9d9cf6512d9ca8c2d6b" >>,
    << 14054, "9b3ea19e1e5813e6bb626b964b7cccd8", TRUE, "1c0bc5ddcb700903", "df9f7a64", "758dbf3af9816e4116f6df8bc266e4fd" >>,
    << 14085, "592ddfd248b6db2e794d9fdd499c1663", TRUE, "34ea001e5ffb59ae", "1d4182c0", "a0766a84a09de18510d4d43ecf134e68" >>,
    << 14088, "a63149e3cb45916c037f25966e7b0e69", TRUE, "5f4c7f9a19acfd2a", "dca6742c", "194c6d4987b1efce20dc9bcae9efe61e" >>,
    << 14096, "11471fed8b4342620fe31b9d7473cea7", TRUE, "67c986561efc047e", "4ed5ad9f", "43919d5a6b1279fff40b593d03aa4161" >>,
    << 14099, "ecc9e69a849d4bf45fcebe9916b2a2df", TRUE, "67e93858db266b01", "1366bc8", "0a6e43c4d3a7f980b9f8f2a2ebe98b1b" >>,
    << 14111, "c77b7801ec33cc95311c3456d9ede025", FALSE, "24d99196dca87309", "ac019a4f", "d976cdd6e06a9c73c250dfee954730b6" >>,
    << 14150, "b9780e15c4eaddc2be8008479fa9af62", FALSE, "5c10abf4d3438563", "e9911a47", "99d7dc35a421e79064e12e14c5430171" >>,
    << 14165, "e1bdeb37cf9475d26119ac097b28e8ff", TRUE, "3b4c3520fbf93ad3", "7a754db5", "50c7b6451bfd6d6006507097f8a8620d" >>,
    << 14238, "306450e66a10ca9efb4bd62c2620fb12", TRUE, "7927f79e912086bf", "918bc193", "b240336a2a90e55d56e4a909f8a33c3f" >>,
    << 14273, "81e42ded0d1598ecc9e4f0d5c487c4e4", FALSE, "47ebd653307c0c1a", "fcfb7d02", "876063d42ceba3ec916c6ffa6a573627" >>,
    << 14289, "c39bb15533d7c5037d721e2af812ecc0", FALSE, "8bca930faa3393e", "437fc5a5", "59cec6655dd628f7e51262ea7178a35e" >>,
    << 14310, "5ddb654acf7511ec1e1371381504c365", TRUE, "7a09617e01144b4b", "aaac59e3", "6dc1178a687136c517566c4c02b7d479" >>,
    << 14342, "be632440218905377d832652b89a30a0", FALSE, "95a1ef99df774d5", "a8f2308e", "06836137c9d54165126611dd98c8e1df" >>,
    << 14355, "aacb0a80f47978f3805a677f2c0c1a9d", TRUE, "107748dc639c4957", "4c37712d", "55b23f55028e000b69ad2b23666ef76f" >>,
    << 14431, "96238b6b568cab8b9a36577844a91a70", TRUE, "2ef57d96a9f1941f", "f9c24f72", "95541780f0eb2b86c0ddc8808b32d56e" >>,
    << 14444, "ced0d1a338a425e535db5b8c941af328", FALSE, "45316b5ac2099b85", "50a40b43", "3db219f22f0b5bc49299c55847332782" >>,
    << 14461, "0bd81814d494d88f5ea0c98662909b34", TRUE, "2a250049961c8ec9", "4af6e6d8", "f5c200ed8dd23cc2e7af9975c5dd6ece" >>,
    << 14463, "528d0516ba9156a386872d679d413fdd", TRUE, "5408d5fa05859f21", "dc144722", "ebdebd6c92214875be2fb7af7ca9bfed" >>,
    << 14471, "6567b05f94d3adbaf4b6739bb2f58e25", FALSE, "f856a23381c8b0f", "8353b9a8", "3b8884a57273e3fe3e85cfc5928715eb" >>,
    << 14549, "6cfa20d15f13a8f43bbae260cd47a79e", FALSE, "4a0feb5388bcb65a", "ff218225", "c29cfe790beab2d496931caaabbede1d" >>,
    << 14550, "a06b01632d9736e3e908a069a19e744d", TRUE, "38bff71a2352d95c", "26159a97", "c721a3b9f76d5f01cd6c8c7ba4c0e591" >>,
    << 14577, "f84f87222a7099c1c9adfa0aea92912c", FALSE, "45b910d2d33b82d9", "a567d064", "87ff24ce0fd7c6b9fc781ebffecfff5e" >>,
    << 14597, "66e51adc34efa200065c37c22a8d489e", FALSE, "7e146e6774f8e644", "14b2b08", "574e24e555d6685b28498750358036c7" >>,
    << 14628, "3da43ddb7e0f505f5f11eb7117bd2856", TRUE, "31857680b4442715", "21fa4cdd", "7b112492e8da6a05903618a3bdf7df6a" >>,
    << 14645, "ca7f3a331def12a08cde8b05269b7f0b", TRUE, "b9b34dbb34181b2", "ccdf989", "e329214ef09287e790b08a8807b3dce4" >>,
    << 14693, "0ce6c69daaf97c2e828eec18419e20ac", FALSE, "8b96247e0a272d2", "a375349c", "4a8f7cf6aa9fc07aeb1c59ba9468101c" >>,
    << 14694, "26e2649a3a06183714f874c241c6944a", FALSE, "3fe0983472a77f4c", "bf8aa57f", "de1ea50090ae77a9e1703b09894da9a2" >>,
    << 14697, "6a2c2d4f3d4a2f4e94a06375eac175a6", FALSE, "6c7a74fe1cfbbfb4", "60cf4b0a", "e02437c5b7ad08e5833eb0d237f46f5e" >>,
    << 14751, "bdeb999314262b9ca9c882777c2af718", FALSE, "61dcaf687fb40430", "a8e6d3e6", "0488d5994cc1d9e9a176ff1c8ef0a82c" >>,
    << 14819, "baa2be8f3c47d776bc6d2f1fb55004f1", FALSE, "429ab225a9164f10", "c74608a8", "d95a815484d3ab8e2849cbcae98a0eaf" >>,
    << 14828, "a642f0039e457cc27f41f468ee50c7c0", FALSE, "423d53a40e52a891", "d9c8e33e", "f82ca57f669dbe1f0a26c9c555de6512" >>,
    << 14852, "9042fefa7e5d5a8659b3687f6fea9e4a", TRUE, "60ac67aafe1358f0", "5a6ffa23", "2c2b8526c1b8fa06b8740e799ac5da14" >>,
    << 14901, "e85c8dcf05ae27bed8d0d86633fb5853", TRUE, "2b1a035ae9c0d118", "13cb7c8e", "4a0587510b512084a67c775b7246c945" >>,
    << 14972, "dc6469df2f61186de285369209eea320", TRUE, "779c0ac20f76596d", "59605975", "1743aa8ceb6bba88bc7a85148c6a7a7c" >>,
    << 15003, "4ce845ba9ace55087970df35d37ab520", TRUE, "95c1d4e6f3b0617", "9828436", "8fdb846611881b6c64031657ffc06399" >>,
    << 15015, "8c787be8f5ed97cf5cfda2f666fa461c", FALSE, "3fcd95db5e1464c5", "e5299280", "90dc843272b7fc64c1692b7e44e1a849" >>,
    << 15031, "c457e26bf87c74594700027d5ca6d92f", FALSE, "7bc237ebe003eaae", "d032f370", "781db767539371841e63f39949960dcd" >>,
    << 15038, "de18c5235efad6520ee89dc23a6e5776", FALSE, "2bbf88e5320ff37e", "33058e56", "98337646369b98d360f3770499fb873b" >>,
    << 15046, "06842aa80dacf55762265dfe6d1d2867", FALSE, "397a0cf44fdc198d", "688838fb", "058a5f8ba9b625d99b30fef857b976ee" >>,
    << 15049, "6667c9bf66345ae3e141ce09b0113f33", FALSE, "134a4f7fcfcc7398", "20c8de2f", "366e27bb130c078184d0ced7d03fbf6d" >>,
    << 15113, "ab5f3bca31fd803fb8f7f4d20f39499d", TRUE, "30bb956d1a2ba101", "2740cb59", "7f58edd0735d0388dbc3bac720176d7c" >>,
    << 15122, "3d508993f0c3b4e0b84a81eb8d79b2b3", TRUE, "7f03b3f204e60731", "75915330", "8b0d6757840f50da0cc0d89f5ccbe434" >>,
    << 15158, "54a092cc923e11f89ac19d7423aa5cf4", FALSE, "31c60efb69880cac", "bed40ce0", "92189d6bcc750529e82b57591f0ddfc1" >>,
    << 15173, "9f8cbde68b9e2ad522c2034a9a3b3488", FALSE, "2cdc56c409fd905e", "b1e25c28", "4e0790fc8d66e101e7fc6370e99d9d22" >>,
    << 15211, "b5ba50addc97a6a33279c8c2c4e40c2e", FALSE, "5ffc2d8697d4e870", "72c9e0a1", "6881422dff187fb982722ba7788e031e" >>,
    << 15240, "00456837a66abadc81c98bbb0e22745d", TRUE, "7de475354c1aee02", "2a882f9b", "97031385f764fd31a2f37b15f43d69ac" >>,
    << 15254, "d3feb2141d1991c8a5754552d197ff24", FALSE, "14443f5d8295b3bd", "8d0c0c52", "00b5e66c68ded788f5ab6b1d5289cfb6" >>,
    << 15296, "4a90fa134f723626f4fba558c17f841a", FALSE, "5c463d4e7a52dafc", "3f904dd8", "5fbac0d7da1168e85c0bbdd43e67a623" >>,
    << 15306, "e9cde06c3ad50f65cfd0f56f4098b319", TRUE, "8af13ba7c51bc5b", "53a12d31", "5ffe5cdfaf33d5ee5fb9b3ce70dce8ea" >>,
    << 15330, "2116764841c84e60f10adbf58a7842d2", FALSE, "2508555431b05a52", "ad3b1f93", "ab1a6ded4f6fbfdf5326e9a37c532fe2" >>,
    << 15382, "fc8d26d3f37bc2a6069297adf9040795", FALSE, "b85ac05a9deafc5", "3a534d8c", "e5e40120c91b2e98f32cf13ad9ad569f" >>,
    << 15405, "d37936197978a75eb4bc0fb48198945d", TRUE, "14422718a0f181b5", "b6dbb0", "208a99a0a2652875521d19ec0a0f4f24" >>,
    << 15461, "58996986872c3fd7366628ed67875128", TRUE, "25fa0e40def30371", "a86c1191", "4634b16b1e3091cd6c80688d32b8ff56" >>,
    << 15488, "f6842e498f3d483793d157e9d6cbc6bf", FALSE, "6a9fdeffe88d747b", "57e08409", "7f35e800acb49bf462ba14b06a0e926a" >>,
    << 15493, "88d50a18ff099e41080809df33f9b4dd", TRUE, "4b5910bfd8453db", "4cddd7d9", "8e732eca4bfbd8b77c88a946c09f9958" >>,
    << 15533, "fbc23ba8d79abb2999b4713d00259667", FALSE, "217e5547d58ea346", "ffd53665", "14f645a83e7e753e45d9f96be9de3d2e" >>,
    << 15663, "72409712b4cc7c70b0f7271655bcb131", TRUE, "5b113964b2218ef8", "f7f37af2", "ccf495a4e67b119754fb6a17e98f6102" >>,
    << 15672, "15b61eebfb6442a0eaf8b673a2de6438", TRUE, "36c1c17302af0ed7", "f186e144", "40d8953d98bfc6ea8b3c609b203c1f11" >>,
    << 15686, "7c27f4a240507f1f962fed4ea58e397f", TRUE, "6dc0493d41f8f76b", "5100703", "6fbdec8be4dcfaa0e1b8a27d215d0f6c" >>,
    << 15705, "4f647ea3ea246ddc1ee644224a1ff937", TRUE, "2108de0d45b875cd", "4ddead91", "8997883b3a96390fcc3881a118220087" >>,
    << 15708, "b18a9114beaefb4e45c51dcbec92730f", TRUE, "4a4f21e4b42b0a63", "e091ec0c", "ac21aa8ed7271e0ab1452ab306836596" >>,
    << 15800, "6e033c4ad630ad7558974e12788db168", FALSE, "726de2b2944c56d", "410a92e", "9adc9eaf71eed1eaa0a5d52f5e71e639" >>,
    << 15813, "ce9b44bafa495e221e3b75f8d49f09da", FALSE, "435bfd1408a0f1b2", "79e14c5f", "e9aa0d061d3d400cde074146e62bbb05" >>,
    << 15836, "d3885741bd58289f46165cef5dd2c321", FALSE, "181fc554cec4188c", "57a69278", "c71bf29b4ef0d36108e0f21b6c0d8017" >>,
    << 15841, "f6406ab088a61677dde472f5d431528a", TRUE, "6f7499060c39b92e", "fc1f6746", "25c52bc8d5c82f79a107ba8ba4237789" >>,
    << 15870, "3e8d5ef4990d28e915a7a8636f36227e", FALSE, "3a05e34cac3d5024", "e73011bf", "360438d29b328ca84619d34121ad16cb" >>,
    << 15872, "3a81f88a566aa1624faefcfd338106bd", TRUE, "302c95b1cfb60423", "6d4e633a", "12c5fe34fa6178f01ba147529b966fd1" >>,
    << 15897, "7826627bdd8d88c8256bdb93e490ed0c", FALSE, "239231b1435265ac", "630be5a5", "f7ff1b82602a0b3b9ec62531f1697e9a" >>,
    << 15900, "da27249621b1dd4988a303115875c753", FALSE, "549e1597ab10a3b6", "54e00a88", "62b9cc639160db92610f62f6214109bd" >>,
    << 15905, "008e685ead20991b45c798ee86824564", TRUE, "149b3d57603e7a9f", "cd16680d", "60a08e526871660ff982086971fda322" >>,
    << 15914, "5747602922f1e55eeae2f2d89bd9789b", TRUE, "4021c65dbe470a5b", "70624291", "b3e26cad526a8efe5cf9091df167d419" >>,
    << 15949, "352c578c98a105c9e0622a143534b132", FALSE, "4b27015a28ec081f", "38877a75", "de6e896aecb7800e375a3877d287cbc7" >>,
    << 16034, "660bbb1d2f7d9aac6851e9c4eb5fe1dc", FALSE, "2db0b637345c9a9d", "f9b43af9", "b0b7459f002a3163fea1a8254dec95ce" >>,
    << 16051, "3863fd23efea220d24d8666956a95baf", FALSE, "4a8a291c40a027aa", "a52db7a9", "2ea7d52b6c8124dec1db22a4c337442d" >>,
    << 16055, "61f46f88cbdb3b2babf1148e218dc536", TRUE, "30495434e597f42f", "cb819b98", "5be88dc7e7402a46a2e976509604d311" >>,
    << 16068, "5fdc519e0d1a294074d199840147b21c", FALSE, "21e60b275fbb1221", "4743986d", "bf14617f82f6263c58069c813f1a4643" >>,
    << 16141, "6da692adfadc6eb970b0185180fe7a0e", FALSE, "d943c04d3dd0cbb", "48d7207a", "6f1911d43500ece508367b8531c318d2" >>,
    << 16288, "7bb29d02a353ddd8ab3b695bf3276c31", FALSE, "1d1ad13eac021144", "b6bee4", "4ce22c0b9f34cee6cc5d3c7cfd2438d9" >>,
    << 16312, "46145371a4335306df81b63a9015e389", TRUE, "4e2fc3d337814b7", "9e1da30b", "8226b13b503d5c532a8e0a37ee036bae" >>,
    << 16467, "ef525a9c15d42412e06c059f67496da1", FALSE, "6a56895adc367dba", "a8efa232", "2a816c62d46c496c191b237bd6828962" >>,
    << 16629, "ec16c6fe70420836689e3a66918427d1", FALSE, "533e32ca8af19b66", "e4dfd7e2", "245ebc09dff32b6f94aff955b1df9dfb" >>,
    << 16681, "3472b4ed59313855b3b587bbb59a3a7e", TRUE, "1e7fd473734ccb2e", "1f8e08d8", "025048b929a609c0f32d508ccfa6e313" >>,
    << 16721, "0df4cf97a936fc9974108a0e7a63853c", TRUE, "5b42c0d0a4f40e97", "e962eb2b", "e9c0047a1357fd68720a0ed694177f70" >>,
    << 16736, "092a1f298d2a0324ad4a4fdcad06df86", TRUE, "70897dc402f4fb2f", "90d845cf", "5109d073a97a7ede826525ccb878ce56" >>,
    << 16744, "42a0cf09d61cff11ba7a788b8191387c", TRUE, "50fa5191ad6d55cd", "8364d731", "4de5af11913e60b6d9d2c3343a2af401" >>,
    << 16795, "99c1bd4e42b7aad5ccc4901e07255871", FALSE, "40ccd69c2e1161a4", "7e91be9b", "7e51352e83262a7c97c720152736f124" >>,
    << 16854, "e390dc5d1a0b30e29fe95e7cecdeda21", FALSE, "4ef5db19114d0ab3", "cdab74d2", "c5514546736bb6adf3230e611ecae802" >>,
    << 16911, "b1905c5e861ab70c1ecfb3610cca67c6", TRUE, "e718fbef06e25b3", "28baafd0", "3a42cca72c77afdf8fca1f4c47fca4f0" >>,
    << 16971, "84659c2528f393e372e499cd9cd12676", FALSE, "640fb9d2e3293905", "dd2283be", "c0c396ae5199528aa7727791dbce8e2f" >>,
    << 17015, "4b14d5f1e72e98244614e10cd86bce05", FALSE, "62880f8daf688658", "2e4a6b89", "b0c6724e635f0fb0692107ef1fc9e424" >>,
    << 17056, "5a78240bb4e09d99688979f396a06be4", TRUE, "4b2969734ef46f29", "381dcf09", "f5b3024f411d058ae1aff1ac485fc527" >>,
    << 17064, "80b58b0ae3f4c91abaad9da620acb338", TRUE, "50d661bc4a848ab6", "7df792f9", "67baa9128be7ef4f15a32bfb61e877f1" >>,
    << 17076, "b51bdc15cc5bf7322d48c2faa47521c7", TRUE, "6e42cd9caadc8bff", "884ce1b0", "f2309a8c0005208c20045b6bfd20c5aa" >>,
    << 17102, "84eb4b769589d31a24e0d46e9dd9625b", FALSE, "72d545cd3e2a3f5f", "95e25723", "548b31bb00a94427444aaf62b6ecc808" >>,
    << 17106, "ef2f87e158667325df1dd0d380abca98", TRUE, "3cd033eb4775b3", "d8449289", "a0ef1cd2a077d33c4ca5b0350dd5aedb" >>,
    << 17149, "69a8d38df3417fb5a290a6fafcf4d559", FALSE, "77c159b15b387046", "77d02992", "073b1e1cefc0175a87e31e78a6c2acb5" >>,
    << 17205, "dd6444490eaf737707518a7bf990b25c", TRUE, "4359a72a9e8a5217", "9924921a", "adc5c7f98dfc2ac893dfdee7d3d7d48f" >>,
    << 17221, "79ee2de5c1161898d1eb68a3d56c3729", TRUE, "17182fbb30ed79b", "9551e741", "25c7dc07ed2c36c90347b2a2bc164b2e" >>,
    << 17247, "4d755d2d729812bc2b74f18db3fbb4e2", TRUE, "2a9d24354f37f656", "6d37a72e", "54503e2e6243a0cca8d5c2e02fdf8a38" >>,
    << 17252, "2c228a40e64d95e75ef54fde794d7852", TRUE, "77924c3a180eb554", "da19d746", "1032f46aa3912804948c8dcab7ff9f6d" >>,
    << 17259, "a3a274da850bb08ab26aa7fe9c2cc4b6", TRUE, "6888e8cd10f6b32f", "1ce22658", "80e4d7ac293c6d8de62f46f66f14ee59" >>,
    << 17346, "f4b15c5053e273a03002a0df0a6f382e", TRUE, "4918d92bf497ff4e", "7b4783cf", "e3f7834506f24746128d7d7bb720044c" >>,
    << 17355, "7782573c63206ff331713c32a5afb4f6", FALSE, "1998d1eaa8744218", "2fd35683", "554d94de0d157e79c9078872200d7117" >>,
    << 17371, "e9f5ec638b72f0ae9b38c349b6a08006", TRUE, "f9e4667fed42020", "7966c411", "72be60c16ad61169ed09c9e2b04f9807" >>,
    << 17381, "162be9f19c47640f7a613bc3b97ae453", TRUE, "26a15856dd06930d", "efdc015a", "b7422a23c1c6ca7adfbdc5d5c01bca19" >>,
    << 17482, "da9d97e69cf77fcdaf2192d2bf5198a2", TRUE, "1143a95acedd2021", "bf2d3a28", "8b738d37ff71433669d3437c3af26c66" >>,
    << 17532, "6553660cd5cedb9046626a5215770259", TRUE, "6f52a81e3d6dd7d9", "614814a", "60df9c84a1944d9c9b9bbb2a27c274b0" >>,
    << 17548, "993a442ad072f16e6682a75e985186e1", TRUE, "3389f6d5fc2bf10a", "b666d491", "19a63003ffd3dd28ba69c462921fc079" >>,
    << 17560, "2bb9ab96a95c279d07c6ee813c5050a3", FALSE, "24761bf64aacbef7", "c8a67668", "640ebdd7525da7dfaddba3b6a9e0d0c0" >>,
    << 17615, "d5ff31a7efffef676a75ee88bdb6d212", FALSE, "45cba15640b92308", "64d80611", "75d5fd88f6d1ef8d91841e969c467ec9" >>,
    << 17634, "2392a35c473d11e0b9228ad621331ce9", TRUE, "2e7b960a7e739518", "3da0f4df", "10efaba4c7573a7c7e905d469c148ead" >>,
    << 17671, "7ed9b25c2ad36d43a6d7b5f61977043b", FALSE, "73e026d24715078e", "b99033f1", "1f310d8db1a82fde155e9b7037195597" >>,
    << 17739, "f673b4c4bc75ebc378523a37f635041f", TRUE, "7d8075625d87b0d6", "7274ad93", "539ebfe883fce1414d8aa1f343e962f5" >>,
    << 17744, "f4a3169cfc76cc00007db6444e543975", TRUE, "6d14e0a60e53bee1", "5f9d7c72", "b57624887c65abb2518e188a4ac7c2ef" >>,
    << 17812, "0d5c28bf97e9738bcc662c213b4ac8bc", FALSE, "f55bd0145255e39", "75f4d50a", "9bed23339c775411b792120ed9072de2" >>,
    << 17866, "6013ee429d1c2cd13771b926e4bde05d", FALSE, "1d628000ef50c7eb", "5b58ec5e", "e01f4ef285233e713860c703fb11a9d1" >>,
    << 17939, "4d686fc19579af142bb2d6eafc887343", TRUE, "6aefbfe6722e6d2e", "8e21ebfa", "521f597162bc437aaf8ed540109ff94c" >>,
    << 17954, "de20e0e67e14f9fc4b05c230db849818", TRUE, "1b9653fdc390e75c", "3de490c9", "a1620c4a147953135a25b94e0085072e" >>,
    << 17990, "01e32527e82d6387bfc6008f46eaf365", FALSE, "72cebbe2757af08d", "46ca39e", "6a78de4418e31340b4863c550db969f7" >>,
    << 18027, "b6371817fcfaed1f0c17f3c91c3b4379", TRUE, "2ba0e5895c3703fd", "bbf3572a", "54aaffdd785e0f4381404d7dedab7c98" >>,
    << 18052, "e786031ba2d31da7c005fba5f36a610a", FALSE, "678696d967b1557a", "98525f89", "2f8a74dd8aa7cd84171fefda30ad6260" >>,
    << 18053, "ba60ffcaa88a82c18f74435fdf1a198f", FALSE, "323f2f3945ccc931", "37e1a09b", "6a4d07c1aa96336b4abb5973578daa29" >>,
    << 18155, "31e8818ebb028989ab610f4f9df7de9f", TRUE, "73dd213ee969ed94", "6bab97ce", "b60a7469a35e3e174a47ac153b643517" >>,
    << 18206, "224fb35fae56bc0eb00e3486dd8459a6", FALSE, "54eeb9756ee6b4d7", "4845c567", "1c80574cabc4dbc3904a03ec16897148" >>,
    << 18307, "0305444081c3e63b9066d23bfeeae19f", TRUE, "65dc74f96f1e8c16", "68c9f534", "2dd356b47e0d360361788fb7333330e6" >>,
    << 18346, "9373dacc855d130ed3f6e1a42ae0b8fc", TRUE, "6a93254645434c7d", "346570dd", "b822751022dbcac90bedb6c74db45b7c" >>,
    << 18368, "7508bd3d52dffdd2ca3a50a73639dd9b", TRUE, "2b9ce77435b4d36a", "c5b36a8f", "28a5d6875ce74556688b60d2dbb73740" >>,
    << 18378, "75cfd7d892c6597a5a9eb739145a18a1", TRUE, "382632f42bfd00de", "f1c61177", "e283d5657980eb113730af7ed6061b46" >>,
    << 18418, "338defe3d7f020f0441a778fe4f84b8a", TRUE, "5eeb6cf3c310151e", "e37fd69c", "997b8415a9b7b52283b59dea6c719671" >>,
    << 18493, "df7996e6af3ff6a7766fb236302dc8a3", FALSE, "7f285a065a634620", "3d6452cf", "51737fc854500a0e1c5f317a553cbef4" >>,
    << 18515, "b43acba0f1f63f411cb35f4aad196617", TRUE, "3399a57ccd04cd4c", "5c5ab8ab", "074d49d3f865230d45db748efef10639" >>,
    << 18528, "f667bb05825cdacecfde9ffeeb35e383", TRUE, "518c8c6ca528cde7", "def5e9e8", "424e2696f2928bb26d3be0b57813213e" >>,
    << 18647, "906570f89f69600a6b8803ef6ee0352d", FALSE, "6e8edcef5954479b", "17ca7c6c", "5f800cb742bad200d07fcfe5b47efabf" >>,
    << 18714, "6145623af07053a561a0ba69bb2bdae3", TRUE, "302f2bdd1286f22f", "78eb218e", "a7a6612054590363aa2fec35123676aa" >>,
    << 18743, "835a9194c28535a9c25cb02b0b2494a9", FALSE, "77ab62cdd6a7219b", "dcb7b77d", "a9a40bbac81ca79eee76722a01938209" >>,
    << 18771, "c63352f169a9f667a0fbb3ccbabdc544", FALSE, "70e8226fc6247a0b", "9a0f4fc8", "1c569e8fad0e747e4ef45de09b071a7d" >>,
    << 18779, "c24c41fa9ceaf486491afe2f9c893f5a", FALSE, "566474fa261b4b7", "525ce798", "a0d6cb53e32cd93e95e38af0960de303" >>,
    << 18811, "15ba086ac2184cb0bfebba6ba6094971", FALSE, "26c728e799b8a3c8", "5be99f3f", "cfe689ce5e91bad10b21ef5560c26969" >>,
    << 18824, "55ef37453714cc87b22c055b47c9d0b8", FALSE, "1d9f13037ee280ee", "eb819c3f", "d3787a50513ee0cde6dc7d8cf906c976" >>,
    << 18881, "084571121455d99ba1eca4305e9882fb", FALSE, "6792e23f022d893f", "f8d51da4", "7e7f4ecc1c875feadc7b0b81a1663cf8" >>,
    << 18915, "844c5184a88755c075fc7e0eac2b6e8a", FALSE, "2cbabd9915b7e818", "28c6af0c", "d602d7bbf32c39c0ff0bf2ad03719c9e" >>,
    << 19035, "d988f6695672d7acf0fb13f070d9a8fa", FALSE, "18f656a41e028ad6", "6fd2719a", "1882cfdec88a6db250807ac1f883d852" >>,
    << 19069, "ea2fcb4e1d65e4a5e5539e7012898789", FALSE, "496cb1541fc49607", "7e08ab13", "ffce496095f12aca7e18beb0e7c4d077" >>,
    << 19117, "9407f6557f8f1a1d005ec39edf53bd63", FALSE, "54539f6856c1d381", "6054e01e", "e84fbde3d4b6d2163026bf5720a382bf" >>,
    << 19262, "be63f4aabb779982e7165ecaac49db35", TRUE, "3c21f23d29067869", "d8461399", "01bd15a634ce6e621a9ed00996744c1c" >>,
    << 19330, "a81ea98ece57b5e86e892f8437570a5a", TRUE, "14d1c8340561f7d9", "a7ae1fdb", "67bbf7e444fb94346c77a83dfe8de371" >>,
    << 19331, "c8fa3d0570785fae21fafe201ba6e351", FALSE, "66f053d7fed53031", "5b96db8b", "459f98881d99648c9a4e601037811a40" >>,
    << 19346, "6ab1e4c527d39999aee08bbb488f5355", FALSE, "4c0242e412ee43dd", "1f9fe2de", "172314e7125a86aa7f6f83553cfbab52" >>,
    << 19473, "399979bde0aed4668aa40dcef755ee4f", FALSE, "1e1a1f5214bdc88", "8a9c25d3", "240b603b3c2d619b54ddc58a3fb4aa3a" >>,
    << 19522, "e5c82bcba6a2762f24a7b243d43fc625", FALSE, "490ef5534866de1f", "5fc7ffc8", "5361504426a726398d6e85fc79ccfbb0" >>,
    << 19552, "70b1b6eafdc4c66447cb72700bb92fc4", FALSE, "439ff490ff3355bf", "a020e30a", "3837f9b1c6c79d360db0908d5e7ec2ae" >>,
    << 19565, "e8979b37eecd56e7d88d9669d80e10e6", TRUE, "109ac201a37a3a2", "aea7953f", "ca96996746c13198abb33e32bf7c21b0" >>,
    << 19595, "b64b95a37d59e51d292cb0acdd9262b0", FALSE, "11c75a2b0d7747bf", "25d60aab", "34ca5d339884df04eafed17ffd52efcd" >>,
    << 19615, "96e60d689e599225c6877ef35d3199e6", TRUE, "3b5aef902cc67f12", "1c665aa5", "09b2ec356f814c087eff3cf64acd4282" >>,
    << 19678, "7525dd275ee9a61e6ed36334dabe5820", TRUE, "7959ae1238b76ab3", "3e93ad16", "4e5ed77a4e0bcf2d9497b3e737f6de0a" >>,
    << 19737, "5da7240b8408e11cac3c727bd6fa2af1", FALSE, "164c2560b5338ea0", "87e07487", "f2d636569f90990b048bacce3562c04a" >>,
    << 19753, "6091a9c1a4c05fc1198db2ac7378211e", FALSE, "1a65e7a0c4f5e609", "252911c7", "58c3125692ed573d750a70065c552fdc" >>,
    << 19764, "c35402bb23d02c3d540eef82eca1fa9d", FALSE, "55dcdb58aa2e6b5b", "d9f31590", "f9e2a0ad9438cd131c9483c9bdd189ed" >>,
    << 19823, "1f2cb1974daa88d7e73a19d11ed5234e", FALSE, "4833491223783726", "6dacbe20", "62a62e01737b56efc371c57b51cd5f12" >>,
    << 19897, "db8d4de3aa4dffa459130c019db76012", FALSE, "3ca40048cbf64f7f", "9d97fcf2", "5d2501663a500e9c3de280fc76c7af72" >>,
    << 19900, "07f1e264b3fcdd64b55a78232a7c998e", TRUE, "95e0cf80eb3795c", "1e439833", "91b694f58fc5587f338116175a8d44c8" >>,
    << 19905, "8528b7f4b631fcf4b196eebfd4d4c4c1", TRUE, "61b40edc012d4d15", "c3ace2ea", "046a4c75608f26c4ad628ea42fc670ca" >>,
    << 19959, "06b2c73ef5926166efedda929d8ce2c5", FALSE, "7efa620c061848f9", "3bba3ec0", "46905809ddce664958576733b6054a97" >>,
    << 20137, "99f1b50359e4564a1ca2376e84f61b9c", TRUE, "740cbf58fc69a770", "12bc99e7", "4704524db15dac6f17fb5063c8b1b5f0" >>,
    << 20192, "dbb59b930469ae4715e5d1af3600f452", FALSE, "67590cc51e3ee619", "a0da6a55", "1982f3ff034f1eb359936471a47b3c1c" >>,
    << 20279, "066bf9a1dd38b39070e66627acb51b94", FALSE, "2cba2d287436bed1", "200987d4", "668329e74f199ef2d034cb6516bb528a" >>,
    << 20428, "3738b7597a89cd0c4524ad8f85afc87e", FALSE, "bb0cb429e14cb48", "43613ee5", "f213a6d10476e2b360b4cf1c0ee0d4ac" >>,
    << 20481, "2eb315ccb7b35ff6260b47dee9002f14", TRUE, "66b4cc22251b000c", "a8e6fb7d", "27a34d851d8bdca7d4553e790a1e1008" >>,
    << 20561, "6a0bf2d67f1c418538ec646629801307", FALSE, "4e38c9b04460a47a", "4e8c5245", "dc128c08f37fde2a2dd78df8e20cf93c" >>,
    << 20579, "58695ccf2dfd2cc11f1d1cc9d38025a2", TRUE, "ce57080dfae492c", "949705bb", "9f646f613a402129df705d4fd9f49684" >>,
    << 20637, "221af1e60fbcbc6fecc92fcdeebcefea", TRUE, "5e90b77c0305238b", "4326e904", "700a6ef70bd455013dfb941069b3610d" >>,
    << 20641, "67376175b15cd2613bb818c4e35d21b3", FALSE, "158b7010efff074f", "9adb41d2", "faa38ceedae4a164eebf601745cbe1db" >>,
    << 20658, "d4056e39064f50525889a783e4ed4ace", FALSE, "76df2085063cdd7a", "9c1625f0", "0cdbb39a3537dfbc1769f927bc4a3a95" >>,
    << 20663, "ba9e71a6a01c213b2b749b84471daaa8", FALSE, "4f64a55eb43fde59", "3fe826e2", "2209f4b66a78bd1a273b46488804a388" >>,
    << 20687, "7feff615277131c4db1c35e6060a2a21", FALSE, "7e2536161264f2ce", "f502deda", "c5e52f4c2699546f0782aeb180318524" >>,
    << 20689, "63b0b9295d12812fd53fb7981c5d39df", FALSE, "87fbce1f2fe2a88", "4ae825ed", "15e9dff3f2ed25150656e8ae27d8364d" >>,
    << 20737, "a78be911a0fcf8d0ef178904b45e9431", TRUE, "675b7ed6579573f4", "b8eae7be", "f15ebd23e54add9484970a38e78525e6" >>,
    << 20758, "b1d4110d4d22a1fe27e52351494549d0", FALSE, "3fda9d80e32b2e1b", "98b55078", "6bc37fe0be226dc3df6f9f624d5a692f" >>,
    << 20868, "3d1808e0829ca5319efead330ad18a7b", TRUE, "3f538cb2af83f9c3", "3070a039", "dcbcb4f7e38518f94809c2d9a7b930b2" >>,
    << 20997, "6ade053dd423eae3e887aaba03c5d04b", TRUE, "5ff0fd145c434b0f", "ccb70365", "bcf4fbb714a3ca80183e44a38e434170" >>,
    << 21058, "75ebe1a1a416f6a40b8bc7eec0786387", TRUE, "5975abbeee4f608e", "d6164abe", "ce46b4e61e0f0606c448a6c063406f2d" >>,
    << 21070, "b65a5f1c319ccada188f74cbb59ae47a", TRUE, "4b07ad6c14d4df35", "f9e42af2", "686cd567eb98eb99eace0590b65d9519" >>,
    << 21081, "9dd4dcce1479a88f54120365cb69f8c4", FALSE, "49a0e2cc84f468c5", "f5bca7b2", "1f8c0f9a1ad21525b2671ebfeba4ca5e" >>,
    << 21093, "fc941736457ede86f96cb4c638881c26", FALSE, "2838d27427e7017", "226c20d1", "590aa77877781dea9a57c27521a9f835" >>,
    << 21111, "3f037059fda23a776c9139ebc4d07ae0", TRUE, "4a8cbbe01945e5d1", "312462fa", "6ce1dfe733cde2b35365ea72e3d40a1f" >>,
    << 21159, "79be45202fcd1a7070cf7061659fb3c3", FALSE, "1ca7375b3ee3bc5c", "7553efa1", "e1b18d013e5c04648398cb442f9e709e" >>,
    << 21161, "bae5ad48535ea57390174b2e02472cda", TRUE, "39f4bb7625081944", "bdfa55e2", "26d1463aa32acb752e148248993ca5a9" >>,
    << 21217, "8d3f378eb85260e252d87fd7d44ea21a", FALSE, "41ce31db2ca92bfe", "f36150ed", "f01fae6016ea939af88d680c81d4590f" >>,
    << 21219, "a2db6bebd04efa25e7c5472c3464e74d", TRUE, "552d28ad9f21de8c", "4e77d55c", "5f2c60c219543a1c8ebbe35b2c085895" >>,
    << 21231, "77c40bd6514282fd1ecfdeb4fb0723ab", FALSE, "1fe183bdf28338a3", "71735828", "816afdd513020a27a7f9ca57c555f11e" >>,
    << 21242, "72472cbda771d3e132290104ea6b9422", FALSE, "32bd8166a4920bc6", "4ac435b4", "26f8bec82342f7276fe35233302cf822" >>,
    << 21251, "10bf228316be078e99f0d2a3fb80c59c", FALSE, "4311bf1b9c2f631e", "882027d6", "4ab3b0481ef5eb1e5970cc1ff7e276cf" >>,
    << 21305, "95e48d48cfd1b71db21037593d87f948", TRUE, "7e01eb7f15f728f9", "d0e6d014", "d4ea4837e67497102377248b44b01935" >>,
    << 21317, "0e468264939fa02692f072bdf63934f8", TRUE, "2b3cf9e7f9a7d6f2", "e465283e", "9cf36672f48fae24f3b009dd27e83479" >>,
    << 21455, "b150dd363940d695c3151d2cf9875960", FALSE, "35ce22c31b27957d", "261635a4", "3a64d7fcd079d86afd0c74252c9e484c" >>,
    << 21468, "3e4ed3052aa1c3e342b70ea06751cfdb", TRUE, "274de19d26e207bd", "99ebd14f", "f234fcc484e50a5669e6b2e0ff75a32c" >>,
    << 21530, "4c47260f07675a06966df7b58c1370ff", FALSE, "300c8d2253c0da32", "fe576db2", "12c969961dcffeb70a99e592ac7dad47" >>,
    << 21546, "d9e049319a2d5b6d42d1085c35854a08", FALSE, "4a0f412a27ea01f2", "f22f4091", "0294e26e90165a87555aa08ae982d84a" >>,
    << 21615, "8a438c7d8b5369e2d48790fb18da2fbf", TRUE, "3ec6568be325c6ce", "af6288fe", "9e3b2244f2def3467e5d269408883f0c" >>,
    << 21644, "0bedb0599f03ae145de6e648c196cc2b", FALSE, "36b971e831ed69eb", "5703a18a", "328e0244dd4e54a7491277da2ade28ee" >>,
    << 21736, "bfa52a0f7749c2bd3c8ff86076560ac2", TRUE, "496afed736aa58a7", "419f632f", "fda85d6a1651b69c38ee7189473100cd" >>,
    << 21802, "33714e4a9d4ed0d46b77fd44def6152c", FALSE, "7c3e9763026ddc8c", "c7c3c8fb", "c1e75fd8b5cdd1c029c3860467e90b99" >>,
    << 21838, "f7337681ffb6b3153a58d08db35c2b06", TRUE, "76e1324d8a1c081c", "e850de53", "f2782496aec8a4486e1fff709d91e117" >>,
    << 21888, "ffa3d5e57d87ed0c1acb6cec1b1aa305", FALSE, "7d980f531363069f", "3d5c77c9", "fdca56a9a407a104670adf67f18faf03" >>,
    << 21897, "9b46b41803d1d43e4ac024a5d651a259", FALSE, "3fe58597a24ae00b", "c5edc416", "ec7cc44fcaf2726709a0779432724ad0" >>,
    << 21906, "eb3c91532668a5200b700c8584f88fc2", FALSE, "6062efaeed20aaf9", "75989558", "8ca55dfdd5a6516c29fef78265a5ba74" >>,
    << 21929, "86aa06f7280cf41e99cdce8bc5fc12ad", TRUE, "2efa133a7edf2568", "faadaee8", "06125e9cd1f0f292fbdeb5f04e9fb089" >>,
    << 21963, "a252b5c07f4d05079502c1fddcc879c0", FALSE, "69b6cd27cbec512f", "f725d44f", "f2d91c51a37ee63b90755e8adaee79cb" >>,
    << 21974, "58481b49910618e2f4eeda00c3013d43", TRUE, "535d1ba469d7f2b5", "bdf66c74", "bdb2b88e2fec26c7c49a26ed0435aeb6" >>,
    << 21979, "0c5370f2c462198734f5b13453dca699", TRUE, "21c64cbb56933cd1", "6a8366ea", "ce8ac6df53d6b02e3627f4ea6a8c41bf" >>,
    << 21994, "d329cc23c6adff0fd8cc4b4dd2168930", TRUE, "43e5f438b5363748", "fa2f82db", "d50f99922a530956a4e3934808033800" >>,
    << 22174, "e0219b10d6c880e876f226a825526146", FALSE, "3f35957546483c5", "fe4118b3", "62c71c0ec3840ed9167592dcca8d7eda" >>,
    << 22201, "6cc4bbf6a02499c026cad87682e568e5", FALSE, "4d002208c22da373", "c12d828f", "57271da39bb69650ffd97e4e37a31bbe" >>,
    << 22299, "db6e330ef38b76985ea6801647f8d752", FALSE, "2f58318864022c43", "71af5d9b", "49165c755b43acfb0cdf2b0e2e6e8d61" >>,
    << 22335, "fd8d78017122deb9351c5c172d7b552a", TRUE, "2321339f7a5cd7e8", "d31807bc", "e9cb075990aa49b6b32d5c1ee4bb1152" >>,
    << 22338, "923abc41ae3b20ebfccfe33dbc36206f", FALSE, "70f3dddf8c30603f", "a80918f6", "b481a059cf796d12499d625940a92c65" >>,
    << 22381, "ca8bf8f4bc3154e578a69ec3ec43ca57", TRUE, "3a2036771227e22d", "1bf05632", "3a6e8c4c1d28a86425803c0d877a8231" >>,
    << 22399, "c3e5beb8b5f345af80fa4c50e4c3ffcd", TRUE, "66adca8a36db00e6", "c39e8c73", "d152f6226ce0164cdd62923e25786084" >>,
    << 22451, "54ef44b8fac8be62403c25d3bd4bb70e", FALSE, "4980656213db8a6a", "8cb7fe1d", "549438e22c6350f2eacc7b76f11132dd" >>,
    << 22479, "b6f570389dbe502eb9cb2569e416e729", FALSE, "64dd700f9b6abd1a", "c353488c", "0f363f289a0ad2aa6b9d6e8e35274dfc" >>,
    << 22492, "ec48902b0e68520adcfc040021bccdab", TRUE, "5d625d662747c04f", "9797b6ac", "c8d291ac81b86a96e0a9ed8b6816521d" >>,
    << 22598, "8e3bfe9a4120e5fbd9f5301bc8bad9f1", FALSE, "25e1067d18276254", "22a2f704", "f7fcb56f0f69aa3a37c230de00d7e700" >>,
    << 22658, "229a47ba0ba4974aade1e2a063032051", TRUE, "429027f126d1c2f4", "d4506a3e", "7c0463c85735cbae238c4080b51704a3" >>,
    << 22667, "24a82defabe01f2a4cfec659a8a4e156", FALSE, "775e607c984d88ad", "b710aa87", "c57e78b80d167099ff6b25b3bacaf528" >>,
    << 22687, "17cff1985da75451efd1e6f38fd3faee", FALSE, "6c98c773764abe5d", "9fdadbe7", "55c6c51cd85a03755289030fdc2101db" >>,
    << 22801, "709a58d7502d696ae14d3413453ba0c0", FALSE, "67a425fb350614de", "a499375f", "12406a4fda1190bc5a9b97aea3b18ca2" >>,
    << 23001, "856511fb80da1e1ed824d0cad2129460", TRUE, "6a3886964b21404e", "fce6ab98", "f6b6e1a8676a2cd586bd736652f999ec" >>,
    << 23104, "2fb359e8cbc3cc9c74dddb2488c84393", TRUE, "476c11679f869707", "6cadcb36", "51b4e7e0cb429a9ce4f4d9419e09bbb3" >>,
    << 23159, "3849ed87c4595521484517528c803a5f", TRUE, "4afac5d2c3becdd8", "52c353ea", "efa4423ae6ba662aa929ac61138cedf1" >>,
    << 23199, "6bb1f43e38b196e594551d17dfc5658c", FALSE, "97a602784f26c40", "f0267fdd", "89e4fd82280112e99360b5632a0dd28b" >>,
    << 23202, "3e0228162c6c2e4a07de7f470e40147e", FALSE, "537a008eb25e8ab1", "c673fbcb", "452e97a429cbe00b68c2a7ea74aa13f6" >>,
    << 23231, "1c946f59ac2987a6dac24401f0df68d9", FALSE, "10ec2de346971e31", "8b92284d", "725a473d80b70c6473009b2dea371418" >>,
    << 23311, "b731c8cd4f315c15aec94b8c4a860695", FALSE, "749891e88f43ba04", "bf991155", "5a6e733e18adfe6a8cd4ba88c78e1aa2" >>,
    << 23326, "a7cb15b4435f553d21449b452f867383", TRUE, "7064d1648608784b", "c24bd04a", "71350c94190d9d17a2c7cfc6feb00153" >>,
    << 23492, "c80758598a89eb635c7e4f64abc60072", TRUE, "63e4c9f1d10d37e4", "604a2bfb", "857a7cffefd578a9c1484009b3d07df9" >>,
    << 23535, "ef13b206aa4ff3ffeeed5941b0ba625a", TRUE, "249e0ca5e3e67e41", "646aed91", "fc52d77a344d12d8d3498004b5d4e1d0" >>,
    << 23540, "9a3102018c5f1a3a69c9044d34464f46", FALSE, "7f1a60578be14d1", "22eb3fdf", "4a0f4f779ce0219fc64e259b259830a5" >>,
    << 23664, "6d24be174e5661e245cf42ddada698f2", TRUE, "4858d97f26dc347c", "631506dc", "81839be3584386b86bb3a26775f099c7" >>,
    << 23684, "1fb24585ba36392ca3878f87257fbeea", TRUE, "4938cf9e178bb22f", "5d54bebc", "6f5346c2210c5471a178b1a45e301ebd" >>,
    << 23738, "fd0ee6deb3a845420ed9ce7969dd9ae6", TRUE, "1a705fb07ae14593", "c66969a5", "4707cd063b4a91fd85fb6322258670c7" >>,
    << 23817, "ae51d1ae3fc14febf9f8658bf954d314", TRUE, "16ca3a909bf8560", "7af49b74", "dcdacb5d21b720e7cb7974ff7b23c096" >>,
    << 23824, "f71e0422434d0cae93466d0cd7d824c3", TRUE, "a187986d21edd42", "ab5a4054", "b06acd32442bc220aa814935b91d5475" >>,
    << 23880, "e52dfbe66f9744f1d1dff2a63f7e0bf4", FALSE, "3f5071d4be35c28c", "59b98af0", "add03f9792cc1895c8b7309700b9a8d2" >>,
    << 23930, "28df6199f7d22c436d768ef75c55d0fa", TRUE, "132ae1e8427608da", "81f8810f", "339c150f73f63a7b0a975314958fc9bf" >>,
    << 23942, "f8795206dc526ebcb8a3eee8f186b0bd", FALSE, "16d0be07dca772f8", "ea08b37a", "2d2e2cf5a561d46bf0a4a8dbc641acf3" >>,
    << 23946, "56e39cff86eec5a06004c7a584ab9aa2", FALSE, "397a0e0e6ab39bec", "c7e33c5f", "d5a25cadaaca7e535f3fac40998d504f" >>,
    << 23970, "4601af54ae53efc6279d7339f168b329", TRUE, "5d213f5779c5df95", "d6d434d8", "2ada3f044f57f56f25b602385a9f8bad" >>,
    << 24009, "dc641bc7a932acaceb9f99ea20260e4a", FALSE, "7502011eb8491c9a", "9b045ecc", "b57e51ebe2d0faebfa4f822b794208d9" >>,
    << 24021, "b8131cd836ee94880c60f6f249821914", TRUE, "19bee6b07593384f", "3615d389", "c90f16bb1d87c69acbeb6e25fb957172" >>,
    << 24040, "555e91991a4b8b9e13665db31b1fd350", FALSE, "550d84308ca57ac1", "e45ba2f7", "25f87f3ff8715f64914321942d6ab3b6" >>,
    << 24066, "dc9c3a3a466cac9abcb1475f29257c67", TRUE, "15cc54ae421246a3", "c4c285f", "5ede516d98b3c470a8731c3085c7f338" >>,
    << 24074, "84f216a91867da19268b157924b57309", FALSE, "8e25d8d885b91ce", "435b8c2b", "6276f1ec98c404be5e201b75812a9171" >>,
    << 24200, "c1d0b478270cafe32202a5b4fafc531b", FALSE, "7d6b181ad3fc4a3e", "3c493d94", "0d2dd8e6fa16342d175ede31e55868e3" >>,
    << 24206, "ed4dc01127a4931fd7e05b583d9ed4f1", TRUE, "448760f7495996b7", "f36bccd2", "b37d7e24a53e46a83e4aa51a4803123b" >>,
    << 24279, "63b66f98dc03eec12172caccbf972b78", TRUE, "b7a57ffcc577216", "aec7644e", "eae7886d721f3deef221fbc27b82aab9" >>,
    << 24405, "7994948ae0dbd4a97f060eae57d1a7cb", TRUE, "2069d7eccfe0c380", "b83732b0", "734d98c14b71ed5a85f7927d890c597f" >>,
    << 24442, "35bd49573383e3f5eb915010f467a5aa", FALSE, "4eb8a0b42155a4bd", "7cb3b603", "b75864e9c7b660cb0c663f31ee128465" >>,
    << 24498, "27dd1303f84c7d668313186424390208", TRUE, "10418c0aff7bf739", "940237f2", "05d6aeffd3c5655dfd8fe00ef8795f99" >>,
    << 24577, "a50e12137b4a1456f27477bde16a5ef6", TRUE, "20e0a4e554742c50", "d0c46a6a", "f6c063a40fd1b2992c0e45b76fbc54d1" >>,
    << 24690, "5e4b1b3e4c8bb8dcc3b0a07fe56992e8", TRUE, "376c659206c54502", "37320d38", "868447bb9ec9213f88d71bb24ee3ff34" >>,
    << 24710, "b2688fc211583071bae63ac71b522dd0", FALSE, "28ec8e975dc33e63", "1e6df197", "8dae9e6fa7272a878476e1ccc7337f9e" >>,
    << 24783, "abdb54c06167a81a8aba40f4e4a83ed1", TRUE, "2636ad0cdc048f73", "453d3c15", "2b3c32035ae2c5f6498e57e587fce46d" >>,
    << 24862, "a0d935bf9346f0c5d31465fc6de7bfde", TRUE, "157fb39b936d3c71", "72e6602f", "ce8b41036c3cef6a29eb9ec696b32520" >>,
    << 24963, "00d21ec4ad8f5cd400751d3053906110", TRUE, "7a4f8a0171d82c52", "ee7dbc81", "a1b01e14bd8d2863c496ebd38460441b" >>,
    << 24979, "ac3d60f7b212c04d3aca642e184862b6", FALSE, "4630f8f562ce56f9", "37792c65", "13f2ba13bd37bdfb12a353e139770c3f" >>,
    << 25018, "5653bd993c485d3ca4d3297e2f5f6518", FALSE, "501d16ac0b043d37", "2b8ce867", "a01494e04b14e134177764bdc3cd6fcd" >>,
    << 25041, "aa5bacc1077edb2ac05de62d8e160163", FALSE, "21f303910d9b6330", "5895e53f", "917615e51b3380e472213e0d1edaedb7" >>,
    << 25108, "e075cb33ad7b59a65a53368a1434a853", FALSE, "5f2f6c767571e041", "36e6cade", "3119e9fd9d5f86520f22684153c166e8" >>,
    << 25254, "7e92317cbc2b5f3b550b8cc9e11a4b53", TRUE, "61e9acc9984cc3", "64fc9e2", "51080fec2222614f7e57160d92637a20" >>,
    << 25278, "90880de1a33db6316fea3e0fe35c8932", TRUE, "69727b97e0fd539d", "1801c5bf", "934bbeffde55d78b66a1b4734f9930f8" >>,
    << 25376, "88739d148834b8aaa3c9ab9a43bfce30", FALSE, "5010d4347d493fcb", "64a3f2d4", "fe63a3300232365faa8a0b976426433a" >>,
    << 25509, "59b38f77fa5fa04c2005b0dda2ef19bd", TRUE, "131e71eed5ed8530", "e44cad8a", "57f0219216089209f42d3d7e1225977b" >>,
    << 25552, "171fca03c932016985b71a71f488d65d", TRUE, "20f44a60c16973a0", "18a56057", "185a61d6378259be6d3a3415976ea4ff" >>,
    << 25561, "b38c0b7957add1b729b17f0ae1850152", FALSE, "7396c0bc338b9b81", "707415a1", "4df87e66a12d55f30000f151bb82e10e" >>,
    << 25700, "cf7bde069ff043eaa22fd1a3cf3efc40", FALSE, "67b20bbc0bc110be", "a3cf2ed", "175a29eb05f5a52311980c3028397e40" >>,
    << 25970, "c9bec98c2ae3414302f035e731daad88", TRUE, "615a0086b5e16a22", "875abc22", "40ada6f8bd9195fe5622fe7791db619d" >>,
    << 25984, "09ffa53afb883d77af84381dd9a8488b", TRUE, "322f6389c7df5b0d", "4ab104cc", "c780a3ae15209f8383ef18cb79de09d1" >>,
    << 26077, "b1cd1ab1676e98e464105531c0fa9344", TRUE, "67c11299847a6a38", "de46ee46", "ce5626c62cfd452f4bca35a18fdb311c" >>,
    << 26106, "be4632d91d2f4e9cf7a3f61aa47c9544", TRUE, "53bbfbd4011ef50a", "d91f0f99", "6a34de76f49d2a778edaba302e846556" >>,
    << 26241, "afea26820fd875e5300079474a168163", TRUE, "217742bd4886e55a", "3ab90426", "21bf309c29560a245d9fe4872a433231" >>,
    << 26405, "fe52ca10f2a4e04e007fc4439f0ff22c", TRUE, "2c611660e3f0ed48", "79791031", "5ded8945e5a41001a6a124f10957134d" >>,
    << 26425, "3d38b56ee04a80ed0698d0dc90a274b7", FALSE, "7446eb52d1d950ba", "62447784", "070c417416c5f49bafcefa4dd6944a67" >>,
    << 26649, "a459e585b160a092ac51f69c6a221d3b", FALSE, "38e1ed1263f4bbcf", "f8b2eaa", "5e76d3c326f61f908a02bff35fec0737" >>,
    << 26650, "441a1100f0beb504f51c86679b407903", FALSE, "548469125dae9313", "845da26d", "5c7e394d8a1cb3d9daba4c7e0eb72382" >>,
    << 26765, "7a3fa1d5b5f3bd727f939c76e1c5cc35", FALSE, "250f750fefcc18cc", "e5bf130", "abfc1dc2dfb9c2098c3b0d377efdf6f3" >>,
    << 26794, "4b5e9a19092d43e54e7fb2d4109355d1", TRUE, "275176d3f0636508", "e7c7446a", "461a031de97d5401adef10fd5c23d31d" >>,
    << 26812, "7e7098231bb7c3ca0adaece7c09a7e09", TRUE, "2829a4ffec0d4187", "bf497518", "500f69056f1caa597052f61e5086c51f" >>,
    << 26847, "da3324573805934780fb05b7f1f36cfc", TRUE, "3edabd7826dd4fb2", "ef54f844", "256d3e6db21ac321ed1c612df78e8153" >>,
    << 26863, "74a50640a6a3c612b62e3b1ae1d6b37c", TRUE, "25be0f5ab32358b3", "8027d727", "9f5701639849770659fdc7ed8d29de41" >>,
    << 27099, "405daa1aa0f9a4f0c84b63005ee30917", TRUE, "5a846c622603fea0", "7c92f5fb", "1de54143556063970b8958f0c40b85a8" >>,
    << 27153, "91626134d2479fcf2c6d440afecf2b9e", FALSE, "252763084c813b41", "4299697d", "81142ab3487ae4d7af465ff46c872e76" >>,
    << 27162, "06aed1054f00cbf6c2030919a9779592", TRUE, "4fb370475fcf38e3", "e0dc93b2", "ced2ec56ffc214be0d6a848399292abd" >>,
    << 27329, "b05b23affe5ba44354a76898139242c1", TRUE, "4ac218bcf8aaf575", "94e08861", "c34fea1f3e0d80bb9feda3adf6b36c9d" >>,
    << 27359, "bf35df492dcc4719fe3a266daa4b6851", FALSE, "21e25b97d7e5c227", "2351ff58", "1d6704b678c296c448de6a0cec42e3e0" >>,
    << 27410, "bf7ff949760363225144aa3eb1d6f256", TRUE, "7592df9a2263f318", "31ce6c21", "e261547482beffa984785107b2455bac" >>,
    << 27693, "7e7463ffdd21676fdad8cebf1eb3d243", TRUE, "24e55f2713cf582a", "b485e954", "bea859a5a0dd12773304f746839caffd" >>,
    << 27706, "7858f003fd848ea536d585ff765c5d40", FALSE, "5e11d6ea916b1a03", "f11a9717", "9e8cd5fad8a0f111443a8cd6a5a8130f" >>,
    << 27712, "bfeccd374ce375c07774edd2a350be37", FALSE, "73ef3bbd16ef6fcc", "d37974e9", "7af4639ef0f4c0371bfc8a56fed900ed" >>,
    << 27778, "ca34d75316271b65796fc144e94021c3", FALSE, "69160195a59e4a71", "f438ffb2", "d2dc9b03327d88e12b7756340ae6f96a" >>,
    << 27785, "347bfcb5c900fd373f89d30681826002", FALSE, "54ca29068cf2ca70", "b814f196", "cdc5447006e0cdafed7a56066070bf57" >>,
    << 27810, "d6794e2dca0645bd5f806bf02c6ea973", FALSE, "1de72d6c340c67b2", "5dab03ab", "97d0c24eb994e751c6893fbcc73bc1c5" >>,
    << 27963, "f962d83bf85fbf81fb22b2d7ca69b78e", FALSE, "303c4487d97d4985", "c5ad33d9", "9e9fecd483869afb8d8be43b030e4782" >>,
    << 28020, "d80e5c706c7179626873d1dbc7e425e3", TRUE, "6a96883644336dcb", "73a837ef", "2de5730f5e0cfe2d50a6e9037837b864" >>,
    << 28040, "0299dab1765aff36fa20fa798542b955", FALSE, "4f5dd58c7f166217", "cd2b8838", "97c0ec05fa0f2642e60d38c5acc6f2e4" >>,
    << 28166, "f82c167556e12de04beb4c3c0665ce66", FALSE, "1af04f756da7e2ba", "7b592bb7", "cda835f9c2accce8500bc1b24a3ba3e1" >>,
    << 28167, "9c5db906f575d5a539e47414b8a932d5", TRUE, "21a2ebe8d2b569fa", "907cb7f1", "d2b9bad8c2432d0302275e136e1dba38" >>,
    << 28175, "da74920ada6cff44d69d67847b17c67d", TRUE, "6f8ed71b64953c2d", "ad66dad5", "48a930cd9bf7fcb4461f96e5c0d65102" >>,
    << 28195, "1c69ad5340626a6fc83a12dce6d3f6cb", TRUE, "7d44eb400c597823", "a06d3df6", "13d1af233bdd2566827a30aee71dc4e7" >>,
    << 28262, "be189d90a719d5d09b3905688d88c146", TRUE, "7707366e34bd466", "58ca597", "fa6c408600959c0863a53bc52a5721fe" >>,
    << 28285, "f6942d800efb188290c17d6d118582c2", TRUE, "33b6855fa07835dc", "7a2dd0d3", "0e8ef297b0203581ffcd94ec630cacb2" >>,
    << 28346, "41c4f893ccad5a10addac684e8abb71b", FALSE, "3a39e0df0508efc", "ab7d6b3d", "05edc788cd7c17f6a2f2fcdb682bf3ef" >>,
    << 28373, "c31e9cd49cec337b16be4e809382ba7b", TRUE, "119726d1a2f1452", "1ad02938", "2927966385fa815200d6e4026894c561" >>,
    << 28469, "d18792f06290038619325fa80af4a913", TRUE, "c7ff522e64239a5", "b3051edc", "289b5b6eb1a831082fd7235834dbbffa" >>,
    << 28645, "6169e6a200a418787ccaa906771eadd0", FALSE, "64fbdd32008faf8c", "c70ea863", "4577716a1763da964bbd082d7dfd5041" >>,
    << 28716, "1dd182ba3cbc0c28e4c4d13dbc9e6734", TRUE, "2fb3e80fd8985863", "408c92b0", "c9e02e5843936568271a8ad135409a26" >>,
    << 28766, "2c406e1d9a4b5527edffc496922477b1", TRUE, "71d2e676c3677959", "e1c8f6ec", "40eb2f4e58322d967bb064328acecb58" >>,
    << 28783, "a24e0cf0cd33da1b177568e5e806d606", FALSE, "6f95827999e02efc", "6f2c3e67", "d2447014e044f2e125ca7ede98127a46" >>,
    << 28868, "9d79c05e443ae84d2d9ac2e22c4a43ee", TRUE, "427f7ebcc6bba578", "6eb426a7", "68eb5d50be8c1d406118d95c59dbb373" >>,
    << 29107, "14de591c45425e5104c85732547fd025", TRUE, "53521bbb12c55a23", "11234864", "6d51f5a8dcbcc37fa94fd365d3950f38" >>,
    << 29322, "692d650d0162287a8c7d18db268fe144", TRUE, "1d5bb17069086452", "be01f9f9", "798c86ece0e4e1ce149992d1c5e59614" >>,
    << 29352, "3b30f13a520a88fb3f0f369882b5b0ff", FALSE, "65832764287195f8", "62a62521", "be37146a2b8f7c09f096267e4c71b49d" >>,
    << 29363, "0f51ab08a415e45bc431da599249454b", FALSE, "35eb6b21566b2ddb", "f2f3a6c7", "1e2a662cf6b662c051b3d5940ebda513" >>,
    << 29379, "1ebe4ddab144fa50aadd333c786c8422", TRUE, "7cf7a63f4a5d176c", "4c678ac3", "5b75b421c0ebc2a00bc3ef348b2c4c12" >>,
    << 29409, "0f3be7bbc59e7d6b977d062ded72e7b2", FALSE, "39a5e2a464d88cfd", "e1abc23e", "999a488116b225efa17164f24fa1771f" >>,
    << 29435, "2c799191d96a145c8cc80f0930800c99", FALSE, "5859b6ceac33bb81", "3094e9", "a148395ecade08d04288164ebe7a1662" >>,
    << 29507, "2aed0a558c50db97cd6e9a97ecaa6a01", FALSE, "21ad3b582751eb95", "8a9054c6", "0cbe61723d4a298f01975b6c3c2560ef" >>,
    << 29618, "e4f5275c205b0a7ed73cc6ac0439fe33", FALSE, "b99468bab618262", "ebd52610", "0252ba1035763b2df0f4cbbc85a9f117" >>,
    << 29684, "dde85be596a5fbb91340bdc55f16af42", TRUE, "5152213ce87f421", "5d0e693e", "24946019e1b9704452b813df3158fb7b" >>,
    << 29721, "a9e1d66901df8441dfa7673eb363b422", TRUE, "79d3aed35d9c239a", "83e5cea3", "101af4abe4f5b17400000f2f29793fbb" >>,
    << 29736, "57748bde876f1164e2e35cae4fdf2b78", TRUE, "6b3ae9691c5a26e9", "256c71b2", "ae4b808a38cb37f8215afb62194b3ffd" >>,
    << 29829, "3569570870c6e1802cbc9fca66e89f37", TRUE, "7aa2e770853826e6", "676cbb41", "b12863d3dadd1dd5d66b693d61fd0f2f" >>,
    << 29922, "68955ccfd4e2a91f7cc244d20266c86e", FALSE, "19422b975ddd7d0e", "6df9374f", "16eb3b1a8dd0d965bdb5308964a992bc" >>,
    << 30144, "691003094078702ba171aa6f22764a4a", FALSE, "1957d9c3c958e37f", "ef19c0e8", "a2d3db73dcec3274736df0e07f0953cf" >>,
    << 30450, "4e5a9a2a93147345fd9bed722c56f6fb", TRUE, "3009561fa356aec7", "eca9b23f", "6f8e3b47531d42521e171c70c137a75a" >>,
    << 30658, "12c1649fd56aa6da20095c0a101f5b4b", FALSE, "12f89dc8c0e14828", "8806a7ba", "9398b2d778463a29ded075fab776512c" >>,
    << 30836, "ca2fd73744ec64b34638181e48beb0b1", TRUE, "29f7fafdd373fc34", "413fb41e", "769b6d7c688e709216f75722e24fde1b" >>,
    << 30956, "74c6ebde3361292ddad708500907a89f", FALSE, "2d8f07064d886a22", "37990e56", "e170509e622309865ddfa2b29227fda9" >>,
    << 31021, "b00274876be97c63d0afa10bba638da0", FALSE, "7291eaa7d443a14f", "cc30b5cf", "0f2837bbd83d305dbe527eb8d704ecdc" >>,
    << 31061, "0c34d03e2a2db3fc67bb107c4a04deb7", FALSE, "42114cc0df2a74e", "def9e61", "b600ec783a9af52ee4f8b16560483428" >>,
    << 31282, "59c8ca05dc2ea4ca0f1927a9e5d2d627", TRUE, "6a002ea457a05104", "bfe1c10e", "b17e263706b789f024810f9275bfaeeb" >>,
    << 31334, "889ae416893a496ba71d751846bd1cfd", TRUE, "70cc9ece1d9a6f8c", "658a011c", "c4c8d6b6e388ac4c64315170a873ea8d" >>,
    << 31434, "b0bcf1168aa4a88c8fe8cb728a66aab0", FALSE, "5ac0a20dc896d70f", "948749c5", "aad127a98d5b1a11e9a46abb5e82b384" >>,
    << 31479, "af4627e84f6c6595c3cf4056c7dc90fc", TRUE, "394b84ce40f56062", "65d1c94e", "95d474f45220d8b6d214c2eb112fa248" >>,
    << 31594, "d7a6bc0d92f2baf0b9c37a2d131d9861", TRUE, "319a79942e581f6d", "a9a26e9b", "cadacb0971947a12c9db596b95af31a6" >>,
    << 31689, "8b8b832fbe93ad48bf5315d13188beb5", FALSE, "5127e905185f6c7c", "5566d64d", "e238f43f87415f090b4ab25ef7186002" >>,
    << 31785, "9fee0d68ea30cb3d7a7aac00c2d449c9", TRUE, "16a3c98a3c72a62a", "c950f21e", "b4411e172ae7ba665038d0b8575cd3ba" >>,
    << 31885, "0b69466afd13bb4d5701718af34394a6", FALSE, "53edd5bad07893e9", "b6b567d0", "caa985b103f56206fb1c40c7087a1ab3" >>,
    << 31913, "be1fe8a8204e70623e0d40ea7f5bc670", TRUE, "2bf11f03b59015c", "3846c14c", "ca07d672ca8a2cb2cf9dc0c7938b7f80" >>,
    << 32177, "d09d739520501b2bacee2623bc49393f", TRUE, "23793e327dea3daa", "74d014ab", "ced430de3974e2ff76464dd318b6cc74" >>,
    << 32301, "a48e6e59c72a36439b9de5885de81d09", FALSE, "30b21487d05bfeeb", "dc30eb01", "fde475d1135681331cafd16b38580e36" >>,
    << 32344, "cd84f211e6228fdcb4a05ed7f386f4f4", FALSE, "309138b8812ca730", "aabbbb22", "6720b6edee80bec35f6a8ef67739f03c" >>,
    << 32428, "825fcace3df9ab8f01e13013870efd68", TRUE, "4b8c0d4227c857c9", "da1212b9", "4e46daf0f079c0472d93d74df4aca1b2" >>,
    << 32535, "859539c0f4fd6e2a1bc239284fa59037", FALSE, "6988c805684ed8d1", "c58196a0", "21b8045b94a48aba8a09b4460e31c598" >>,
    << 32568, "ae333b81c24ad532c8824fa1c745db9b", FALSE, "3d501a388fd57a23", "b56f79ad", "cea0819ab4fcecd82d62919fd27975e6" >>,
    << 32757, "00a8c3d8cf5eeb1b405d1b77d09ab303", TRUE, "762812e78c3cd315", "549d463a", "c4919e56fb8c65ddfde40d31df67a3aa" >>,
    << 32759, "6b07836499ecd637af48ca1635baf145", FALSE, "7f40e09bd004731b", "ce97dd58", "67f5e0f639768961c73731a734b7ca81" >>,
    << 33111, "de3c87b5110daadf03819cce244796ad", FALSE, "11fdf6e15fdea4d4", "6c7da7b2", "8ca38ceada3e4045055815e45c8b7bcf" >>,
    << 33150, "5b9ef9948b73f56a9b6753d662790062", TRUE, "9f07573d74c2c4d", "9f19943c", "dfcf9a6198a44bd9270484c91b11c96b" >>,
    << 33201, "0e4d93c7f89cb71ffff0e0b9c5222297", FALSE, "46665a999a5d1bb5", "86b9111a", "eeeff1ec7f2578f82daeab7b44c514de" >>,
    << 33307, "5c575fd5627256c4791cea2f0be67202", TRUE, "105b4ff1279bf8ed", "b6b2918a", "48829d6e498c4821c5ac0d3222a1a959" >>,
    << 33325, "2872942f79405676199c1fa772613eb5", FALSE, "7364ad057435168a", "5bddc611", "c63cb190c5de242647c7bc93db172cf5" >>,
    << 33514, "bb15ad0494b00c30ec58919a6f6fe05a", TRUE, "4a2b42090f29b041", "f1908a5e", "eda9d6d7c719a45a841746bef642a225" >>,
    << 33853, "5bbe09d4f57119cb1951619766c0dab0", TRUE, "729093223b6ec925", "ad3115ad", "57f679f3b26ae449ab7456e4353b272a" >>,
    << 33857, "4b9addd53ad6cbda7f82fe056e39400c", FALSE, "6396301f58bdc662", "af47d2e1", "0d91f304f9e783f26d717d6b09752847" >>,
    << 33998, "29f82e5d43d90d62505bb3be70ea3054", FALSE, "2361038055b6aa01", "cbde05fc", "21645a219e4860ba46d96a7084e64772" >>,
    << 34064, "08c9a4aef6bff0c2e86b41e6ba436f6d", TRUE, "2d13383ef2782ab", "461d4674", "70e6ff5c9a97dd1b874ad05e4633c9fd" >>,
    << 34067, "ad936f737bdb3cb5fe224d193268616e", TRUE, "289ec33b62d0a811", "c69ba8d7", "24db5245dfe5d34b7122b95227bcec56" >>,
    << 34429, "796b3ba574d1723bd58db25c0a9b9e78", TRUE, "d0c03e7a114e21e", "27c0634b", "2e96bb3acd33f2f9383cc89c52103b6e" >>,
    << 34491, "706b63d6f55c0e1d6086cd192e9d5a5c", TRUE, "7d34ce1e2d98620c", "d5ce68f2", "3317e21277bc0bc08cfc2451347d2830" >>,
    << 34493, "248e89479b25ca7737efad641d6dd704", FALSE, "481e1f1497d3420a", "a59a17ef", "3395d755b54ffd4fc91a1b28526a47e6" >>,
    << 34519, "db3e2ef556a6988b58bf91077b744397", FALSE, "770a9c4a664021fc", "d664b6cf", "3f9d3eb82fcb6a82cfef936fa0e49359" >>,
    << 34622, "7324bb08429c7109b9cab1c574a131f7", FALSE, "9cdf241dbee43db", "ecaf9376", "12ccf7613e7e44d44612fbdf15f213cd" >>,
    << 34656, "c808900778ec2d9d190fdcfdd825276e", FALSE, "4a38a58040dbb969", "8980bc4e", "9a5e8a56b6567fdca1b1e9939d356d1d" >>,
    << 34777, "f84b1e3365668d9a95655adbcf83c6ae", FALSE, "506dd1cb5bbf1792", "da5e73fc", "27cadbd196a6599350e1c887d5ddc82a" >>,
    << 34807, "31b413714e2c20fe17467b95993ec932", TRUE, "755958076516efab", "3e05b0fa", "42942d70751885b73a99c155fe2c0d9d" >>,
    << 34859, "1d86d38c03554a67e64859632499778c", TRUE, "3017c5d9e59e59b7", "d7bbd6bc", "d227bb5a5bdbd21054f3f198ac962471" >>,
    << 34929, "08ecaa351f0670b97ab1f806059005b9", FALSE, "7aed4fcdd8a6de1f", "2f44c5db", "2a27aad078673bf19d2c090fd7ed7409" >>,
    << 34946, "af8e5a81ba8e3af9b5054deeff30bc86", FALSE, "5ba96c67a0a9018d", "85ed451d", "c355b1dfe0f0e17a30144bcd3eb0cbaf" >>,
    << 35055, "277499ec7e41d448a26b5732cd897fd0", TRUE, "54d0914ace51510f", "cf419102", "a90f7518be342d76c281ede07cb47679" >>,
    << 35075, "49cc539dc57c4a4f2499c9762b74e059", FALSE, "931b1d90ce1b704", "9cfa9769", "5a958d2b473f9ee286b0a02628f9a8ca" >>,
    << 35401, "5c5fe8cf4fa1c74bae110eef9b013179", TRUE, "3d23cda41b267039", "13e33284", "47ec7428f2313548158f686f696adcd3" >>,
    << 35738, "4d76e27cf2a3e262997fcde1fc5812c5", TRUE, "6e70f32c6a48e126", "8fb5282d", "c1a39012823492f908a53fc65dde5e8d" >>,
    << 35765, "cd6abaa41cdd5a75fc877aa9b08ca844", FALSE, "6f459126590099ff", "14ac0d6c", "c447a40c799e92d12446b8b6b8d4e750" >>,
    << 35833, "2603eb307bfd675e64bc963fd67bab17", FALSE, "43c031f37c68c7ea", "950b0184", "4be5a1806d71a5d54a6db8245bfba100" >>,
    << 35982, "25a38162703994b7a753e172099bb99f", TRUE, "22b7cde21277a670", "9374d2aa", "9123eb9156c1764cd4a3e62c7e896582" >>,
    << 36041, "d44b64f8504b16ac16aa5bed1a51ec1c", FALSE, "2ae920fb58e92e2e", "87ed7d45", "983461ae31f3c2fb215626fa9fba1c42" >>,
    << 36147, "50035d58142fa0be2ff9f8fd3ad6eeed", TRUE, "64883b4069a82d9f", "5570f014", "3266181368c83e5f79c1908e454bb122" >>,
    << 36336, "bb08a7d74b7f627d96b34126131a5713", TRUE, "c61f9ddbfa39208", "c30ae049", "86a0b9cdaa1fd5ae9cb2ed0ec4a9c00d" >>,
    << 36345, "29f938b7255efb7c97ff16477c202836", FALSE, "1a1d943e3f5cc191", "88baefe0", "f63d21b73fce49067f21233e40921d24" >>,
    << 36371, "d637aefb9a2b059773ebde261cccb563", FALSE, "292a8f13859c2260", "4e85abee", "44df2018331325bb1e30096cb739f16d" >>,
    << 36434, "7fb1a21d061829984b08e7b196d6b0a1", FALSE, "212f31cf5d151855", "70dbe650", "8d3f74a54c9b7924d0d0756c787d52bc" >>,
    << 36511, "dea2e88cb90bec53640764e3853c7815", TRUE, "19bad8acc6918af3", "355d4a18", "026c36efd1545537332224546f3c707c" >>,
    << 36632, "128aa72f7767cc18317d632725edd37d", TRUE, "794c277d3c54efb4", "d9c4e4bc", "322bdb708e8606644116d8a8ada6033a" >>,
    << 36685, "7935e06336920952ecaa3fbf69fa0d28", FALSE, "2b0b88c48c376ae2", "ac4972a3", "294b38fc54dc630949c9bd42a6ccce4f" >>,
    << 36721, "c0b127f7409b2ccb931678523dcac05a", FALSE, "638a35796bfe0755", "9b1460e5", "389d895416a24545c60ce9ce2a239899" >>,
    << 36731, "d7a6f36120aa9ac2c81d4d6279c9b8d5", TRUE, "4dfff7205687e6eb", "fd733e26", "13fbc4445a72cf77460edc9784d73112" >>,
    << 36789, "3b89f944e4b873422659ee77daaf1922", FALSE, "18af7460ff4ed19d", "3ec34411", "55fe62cef0ff3b26202774eb7382052b" >>,
    << 36856, "561ba77629f13299143fbd672ed63317", FALSE, "5551a6782e1d918", "d9d5bba9", "b74c995983527b684b9a35109dff4258" >>,
    << 36883, "8802080e3c8b6ef3465fd489fc7d78bf", TRUE, "1c97470f71f8bfa7", "e750e0", "ad489fe8bb817129d79fbc28c551a304" >>,
    << 36929, "c702e2b3932cfc71ee0acba07f0d03b6", FALSE, "1fab6a7f9aff492f", "c59e6b71", "1b36bd97de117f4a25261c0181a2e58e" >>,
    << 37114, "70c2133653a260ed73edee6e648dc962", FALSE, "6af39891b3bd859b", "1e70f539", "41ea1201e3b0b9711222fcbedbb7583e" >>,
    << 37135, "4a78a7befa0042f1f8b7ff1909dc55df", TRUE, "186becb3a95b7b59", "5ed8374f", "7406631d2c6751fed19a464617b5ed51" >>,
    << 37138, "74f8c086fc64f21ed760480785ca2374", TRUE, "45ab353174e351ca", "f17ba8ae", "674880b9fe257f0395f353cf4b30a51d" >>,
    << 37334, "38fedd8fefcf103897cb3368b4f6d0f7", TRUE, "715e6db65f3653ca", "9009156c", "dbbc3e23048dd3aef080a6395e24fa89" >>,
    << 37649, "49b2ff7ece1781216ca200803ffadf35", FALSE, "47e978264e5585d9", "9ca5c2e1", "6eefdba920492ddb37ba7462ee4bfa2f" >>,
    << 37805, "84c874a5f39fc008a98fd9e0443b288f", FALSE, "7d09ff204af910e8", "d2bdfd0f", "14803068eb19d1aea41b30c302543981" >>,
    << 37918, "0fc2a32636499b0591c72ba7d60bfc71", TRUE, "14ae48bd845dddc6", "1abb3e7b", "fb86d27e232d6cd14eaee86859969880" >>,
    << 37979, "a719a6ff9ffff1968ae53fc70622d54d", FALSE, "5a2d324aa3cd21a5", "dc687d28", "3de95125d1475accec1c7c81f1094082" >>,
    << 38120, "65ed905c40e6468b39cee9f59ac7c22d", TRUE, "57ab5d96697151fc", "45b16dae", "9b4bc298d36d279568642cae045ab766" >>,
    << 38303, "b5452f11f0e394072091cd3b04bf6e40", FALSE, "2c286870f081c77", "330ff9c", "0ea44dda2654afcb1fe3bb4b120e0bb2" >>,
    << 38372, "46c98fdf026ccb4665c2cb59bca6aa8d", FALSE, "7f00a37409e30b2e", "13d2dd71", "516b500194c5fc4006a8bdb2f550b16d" >>,
    << 38445, "3d3e18bcb6a0fbd863e2e714d8ae42ef", TRUE, "53a781dab731f334", "ec71dbb2", "eec53126768c156a2fa394d90d719da8" >>,
    << 38469, "25428a16bb65e2855e8b998e6617ef3b", FALSE, "3f56e82e0bd0513d", "ffe43d83", "45cfd23d124c74d18323deb65575a320" >>,
    << 38593, "cf983889d9dc517119d7373228e3e0bf", FALSE, "5c5675598c67826a", "79813054", "6b98f3ca574ee3bed3c51476117c1c2c" >>,
    << 38700, "ff6f780f337b9de1d70d0f4358d59fff", TRUE, "2f2d2f8b43c702bc", "8be9d05d", "7a28d9907f42b205d63684073971850d" >>,
    << 38872, "1428d97727b98185f6a808ee4e4007e5", TRUE, "6fe649f6b9556305", "1b0a44c2", "6d9242edf4c50a1a6bd7815f1029b792" >>,
    << 39081, "273aa0d5c9e9ecf58ec0d9f4227ba2c8", TRUE, "52a18deb7f9d2ecd", "2783c85", "5cb10d30c381880104961fcc23dd0179" >>,
    << 39127, "ac5d469f122e3111dc5af8e3bac0118e", TRUE, "4d8e149d5ef3f1cd", "1633e648", "73b8e4fca383c75fd24ba3c52ac824c9" >>,
    << 39437, "1fb825a0508b675006675cf05cab0431", TRUE, "cc976d360bab2d", "24d3cb3a", "627fe69318b73e29cbda1d8904cf9f2b" >>,
    << 39465, "ac00948ab2fb1abcbd1ca721d29b8fc8", TRUE, "2dbd6c1ec99c535b", "d755308a", "2471f74f9b879c923cf48d48976d4ea9" >>,
    << 39523, "fc064d5237b89ef3f7961bcf4c1125c8", FALSE, "5755200e4be6241e", "fb4be362", "e3bf7b28089ec5ad376387635f3b7043" >>,
    << 39538, "22ade0afae65575e94644b5c635b4578", FALSE, "da92e4813ca2869", "50db9dfc", "a1e9c1f52e6aa918233e47670d6d2a63" >>,
    << 39709, "2fec0b02780656ab15e78823218da4e8", TRUE, "72b79cf750b4d6e0", "5105fb8b", "c0ec880ef6088328de8c6f3b7db08f9d" >>,
    << 39740, "096186ffbd0243ccfb4b69171c5d474f", TRUE, "683ecfc196b9bfa6", "77391f9b", "6c517cf54c65ec183301dc76ef0d9306" >>,
    << 39757, "ab1e4e9e18f35ddf8aee7c86e666e3fc", FALSE, "605f3854d57f5a99", "1c5fadf", "c3e88ecc5a0439657f7d85d97b0b679a" >>,
    << 39926, "87e75a173e0a70c9c0ade34878300505", TRUE, "79591e09ee74ecf6", "2c2946dc", "5b984ba50260b673111649038748293f" >>,
    << 40027, "091dfb95c5eda3b14a711295a18fc047", TRUE, "ce3369adb8a6f72", "7aebeb94", "30814b9fd5aa53fef4ed4939e8c4e5dd" >>,
    << 40161, "910159df7a3738a50a478f80015268a1", FALSE, "5dea170eb216825a", "e0fcc335", "a955949411564b09e5f5527e144553ba" >>,
    << 40186, "36fb9073f8da5d31a6c5812da40cde10", TRUE, "999a69e49cd60ab", "1dd87487", "7730e4423731270429c23fd26f8b2d11" >>,
    << 40198, "b3f7442498e512db13662667dcb26dd0", FALSE, "25e441ac63be054c", "28ba5a7f", "2a6b05828af54426f33cef085c4c1264" >>,
    << 40259, "dab6ab5e22470f3d453596fa66f06133", FALSE, "547a7dc107d8f044", "5fe28436", "97c1094d17445d155ba8d7f06c1a7ca5" >>,
    << 40322, "8ac7c1fd9e9772683e493b6db885b213", TRUE, "909403940fc3a10", "5e3b9397", "f0f058b40d25f813f6f889aee28cfb42" >>,
    << 40330, "5e9a6f249bfb22389488e9e476d27521", FALSE, "1b29d3431e289eca", "cb338570", "8e77ede919a9cc14d8356b167cac433f" >>,
    << 40440, "f167e477ab40d78ca0583c4114c1d795", TRUE, "2c0ac356a900fb0b", "b43aa0a4", "6302f5bc6c7a1a38476dcf222db7ee3d" >>,
    << 40517, "a83b5e0689e8360459e45d49aa5e7437", FALSE, "4f60904049a7c68a", "33d96804", "44b8815a5a690a303b7eb20f620a4a48" >>,
    << 40926, "1a76ba3d49cd7621d436b1bc0ae8ccd5", FALSE, "2da08cb3dc6ac3a", "1ef44a32", "df919bd68bfd3f6e3ef2b8ca6fb7616c" >>,
    << 40966, "8906a52d2cc7b387e9928a6e4697671e", TRUE, "2080fe178758a313", "72074ff4", "ae14213d8eea3f3e0659a76677697fb2" >>,
    << 41247, "23b408f758ae5fadf56c8b8460c0584c", FALSE, "1e9170e03c7dfc39", "2be0c8db", "951b0f9aada0519b67769376ed7d49dc" >>,
    << 41340, "82ab4abc359ef70757adf9ebfa88537f", TRUE, "5c2f973c4a7830c3", "8617e446", "042a8e282d45aa4970fcebf2870149e2" >>,
    << 41347, "d758bbe681b67bf694b07c2030818cb0", TRUE, "1ca1dc9bf1580226", "86f4e499", "10a11cfe0223fe52828f64d0bb536dcd" >>,
    << 41397, "9f668286c911ba61dc4160551bc8d0bb", FALSE, "e33f9ab8afa708e", "6a116124", "6354598e2b340cc8d87f2b2d40898f98" >>,
    << 41551, "ae1a8f919d60d10c3dd3c966bd9e371b", TRUE, "91e97c62ea64517", "b195f797", "f76c88ec0b7abd89396f3aeb8df81055" >>,
    << 41582, "492055fdd3a02024c1dba6635458bc6e", TRUE, "275bf7e285d2b0a", "edbf3abd", "daa33cf4e871b46a298ca3f36afcef4e" >>,
    << 41649, "24c6d05cd6e526cf70bdab8d3b89e8ea", FALSE, "6fed35d5e53fffa0", "f0821572", "6bc1dbb0c826be7900ebd91da5b0be12" >>,
    << 41836, "f4d5fae12f6ae55f537caa2ff0d7d045", TRUE, "479cf46ab3c86150", "4cc242a7", "b2e83a4df6276a458358022bbada5194" >>,
    << 41944, "b86fe957a8f1cdbc05b2011f44338940", TRUE, "77a364e5c3b64680", "4f6ba2d9", "3480532cdf80a4a581ab62d4b7dadca6" >>,
    << 41974, "463432bc1e030d55daadf5b5204ec5e9", TRUE, "665323bdc2636f78", "e24a18e3", "5a76db5de30295dea2917aabfb250d95" >>,
    << 42090, "5f8944bec62beeda1c73ae79792c6937", TRUE, "1e7c7962ee75407e", "9e1c436f", "ea95009da5bbd5842f97c3e198d429ab" >>,
    << 42267, "a5f33cb0fede78f250fe241cc1a876bd", FALSE, "629575bd5bdd0c7d", "dbb7b84a", "66a922bf18c2b2085cead7f68204d383" >>,
    << 42328, "00046b28b3102facf500da546d5bad66", TRUE, "6393fac060825c7d", "50e76b76", "3239624ea875ecb763fc3b57ed84a523" >>,
    << 42374, "a115f91b8e8cc4581ac60ee642665541", FALSE, "4a751b4229eaf0c5", "373fef90", "020f4738b7963a232c033f1a6afd6272" >>,
    << 42772, "f411ec321c091a12e8e8faf49a3aa023", TRUE, "6cf7ca1974921891", "812bbd51", "e69e75f1d60361be1a41317574f3b29d" >>,
    << 42863, "9471bd77c84715d4bbd78be9562f2984", TRUE, "3011c5ce713a7893", "969595f4", "fff12e498308422c41b6adaf1996684d" >>,
    << 43140, "d97a40bd0c4b9f7b67f7f35212af0e8b", TRUE, "b208135e6934261", "ee36ed6", "bdc97eb014cad0fd21cfdf1d74649999" >>,
    << 43582, "9bc72aa685bf56c984c15a1bee586e7c", TRUE, "3c2d7d224185bf3f", "377966fd", "e3837f950cf6e8477674bea1817bdfdc" >>,
    << 43607, "790e5452e7574d4287e86bca15a8f62c", FALSE, "3f19c92ee7f50dca", "b13dbddf", "e288d4c47ec74705768627d18a3f598d" >>,
    << 43779, "2d1884c123cb93033046aab29a2489c7", FALSE, "540d46eea2e043bb", "ddc2100c", "622880209e60edd83fe089d1a362d99f" >>,
    << 43806, "d1d7d8cddb7a3581e14fe1f38454c106", TRUE, "f89f28cbf2917c1", "a0079df0", "fcbfdaf81ef2a423811b5bce2f1a8b35" >>,
    << 43920, "41f48e1a5c08a67a56848a0999c1d5ab", TRUE, "603402791835d9d3", "4714cdc", "fbd08d3c0b71e8bd422f0efb93b39606" >>,
    << 43936, "8c90b00e3e5699908ca1696875e4ca72", FALSE, "174c5f1a8c2e3fb", "665672f8", "f86b7b9d0c9ff62f3f19e49824c308cd" >>,
    << 43941, "3900ba6d029ca742a56f846c4db4fbf7", TRUE, "8e506ee10e9640b", "8e97a6c2", "78f7bfbdbbb5a9413a54f5976b558aa3" >>,
    << 43999, "1e0b00f760b289cebe391a252b5d69bf", FALSE, "4b55be06edc2eb58", "a4b37f71", "5c99aa1e4b6a7af9cbc28917b5447378" >>,
    << 44249, "aa27e6f2c9fc46630a3c20e2a3dce2d2", TRUE, "373bb95f96e0c792", "a6c933fd", "47313c321317d80d3811bf319988e0de" >>,
    << 44258, "4f9831e98b862ea086e9b6356526d08f", TRUE, "48e5532c0061c47", "5beb716d", "19d0c42aeebe2f2c5624e1a501c8b48b" >>,
    << 44315, "9fb3eef327fdad3286d7ab25fb5ddd01", TRUE, "44f02d784da822fd", "8d11f29e", "1a4bce8f66d287ed9accceafdd18d983" >>,
    << 44573, "b74b87f89add240598abaeaf9e810f74", FALSE, "1ed26803057b6510", "431a4418", "f406469ef2bec17da3916394879cd943" >>,
    << 44817, "228468c5b316240407ae8b5c7b2e1517", FALSE, "79b4daa8b5605542", "e6f84429", "03aba8557b4bfe491cd1796b67a87374" >>,
    << 44822, "c173b9478aa825b02f4cebfad697f071", FALSE, "3c0af3d65601a59e", "7de80896", "c55b61d05e6993c806babfa1e654041b" >>,
    << 44872, "06e6dfa5376aa80b72be9f6b2a4444ef", FALSE, "777fe19617764e51", "25723fcf", "6c39579cf25422ec81646c96f5cc6ff2" >>,
    << 45032, "18ba35124dd66e0eaba93c03e512b8b3", FALSE, "224e8c68b625d0e1", "cefbd956", "f11e725e69a80272b0d68c089f79c617" >>,
    << 45358, "bf8cc263c1f9ea9388f2d858d0cf961a", FALSE, "4c61cf2d65f39720", "8f7171ce", "797bed56f203c5686aac1c7f5b62120f" >>,
    << 45578, "2f98a0ac17d75f6d8334e8985d79a8f6", TRUE, "f72bffc8f2c0dd2", "49754bd1", "2ac6dfea3f777aecaa9d0d99397f3237" >>,
    << 45611, "845349fc90771bb54d111321d13727ed", TRUE, "6bbcb3eea88b02ee", "9b6315d2", "b0ef5c3f1446d0979205392757ba8b66" >>,
    << 45799, "e1116d4752e155cd545a7b79aea49a32", FALSE, "7802ad6024544ddc", "5fd1a5f2", "805f26cea1d2bc34907e1fb7a1bb2294" >>,
    << 46098, "4a008bddf36baa9b1667c7c34aea26aa", FALSE, "56d02452580f0077", "648edaab", "1ac54c2707beb41589340802e2cd735d" >>,
    << 46387, "210b1bc7382c3fe9e589e2a073f73d97", TRUE, "7c7c64a0e3700bf0", "fb618e63", "5f453a7b8b22f2c2174d7273c77c347f" >>,
    << 46475, "db85c894711a21239d7302e2975e7ec8", TRUE, "4c56ac4d553c5bfd", "f306a387", "ae137c5600986659bae1f94e20b7a018" >>,
    << 46668, "dc0b895ed2fd23bd007589ed35fba422", TRUE, "5ec8e30696e9a534", "2eb4b0c3", "9fc6a2e7b617477cd6eb664186b77431" >>,
    << 46686, "194aada6606043d9ac9cd29c9edc8f31", FALSE, "74ccde95b12c5796", "1507f7a7", "36d0e3e760fa9e1f2d6ac9efa056a2f2" >>,
    << 46761, "0677e520425785ab52f6648b0a891870", FALSE, "75bd6a21e0192fe2", "bd2ba0ef", "eb717ab706bca8ab9aa3b68c98150a9c" >>,
    << 46839, "322f8a5a2bf8493fa96c19bba662cf19", FALSE, "233f5670b5a42989", "88d4afc3", "16af40d194b7e004bf921c8c162291f6" >>,
    << 47170, "ee639f9be3875ff407d203c2d9ff4bcd", FALSE, "1069839fd97cdb59", "973ca28a", "6d35b86d71c8101263cff84db7bd5617" >>,
    << 47479, "1806abec90a2bde0973f6b31df16a3b2", TRUE, "4891b376dceb2e73", "2c36d646", "a397b682b94d03024e066d8c9c7e694d" >>,
    << 47524, "63ae677f299f47301873bb76768c6278", FALSE, "698ef06d4aa47fb7", "74c7ffc0", "6c9533425a7f7182493d98b37ece8def" >>,
    << 47574, "e05b04edd3535f3b0c7c7b7df1354cd4", FALSE, "16929f3df921cb76", "1aef305f", "eb5258c900bcaaa8e73bb0c7892fc519" >>,
    << 47648, "8838a48c6eb879a5d2e94eb57ebb73ef", TRUE, "15e37c238b78d958", "e7ea49ed", "2013a40b84bf5ff67cbdced04675cf38" >>,
    << 47822, "962cf85f7a2e335bc4f056ed7821ccec", TRUE, "490d4859c9241f90", "8db0a70e", "144a23567cda69763624435309656f3e" >>,
    << 47944, "8696ca9e186c0c46b05e13d2f195ea09", FALSE, "25a88e88f4acf06a", "c4c00ae6", "cf0ad5df460cf746c4b7b7a1e3a7e041" >>,
    << 48150, "4dc254c63709e215e8ea57daceb731b7", FALSE, "33c0685585d6936a", "9ba4caaa", "af42916b0163d0118023e901f289e473" >>,
    << 48289, "9e4117474b5b34cb0507a1781838a696", FALSE, "706a3e2fbe5d317c", "7082fbb2", "412d3f0aa6da713c0fa60009205bfe73" >>,
    << 48325, "7669da609791b517dc915d11f10a9059", FALSE, "289ea0cfae7d059c", "7d4bf69c", "eefc78a0e1a3f37388e7fbe8c67d33d7" >>,
    << 48425, "10501bc7fd31e02d3211dbd0f3084a6b", FALSE, "7cd31c3358176a74", "a8310f02", "0166fed23b295b77fa655b7e73abe51d" >>,
    << 48533, "4c142414e356b1efc7ef587db4a3da97", TRUE, "2c904d6cbbd35202", "61331f38", "6909896d41a8f17d22e00fc22c7d6a8b" >>,
    << 48554, "0e95de6dbace1ab5630793f2e166f60b", FALSE, "10e5e9d944863a63", "9e1c5f26", "0e55ec6967b279fcff033a6bafee4055" >>,
    << 48839, "5bc12727693b370eaf40e69d3f592ae1", FALSE, "2557d8bdacc09a77", "cb31a9c9", "22b26de062c34794ac4f2b5abce974a5" >>,
    << 49133, "b2c9ede44a94dac321b1ff9beb2e1730", TRUE, "ead2f236196098e", "e913ac1d", "55929013b6557d19ccba4091bfec94eb" >>,
    << 49169, "348538e877a549887a6158743e964b34", TRUE, "69a61cb71dcad17f", "c1c2ac3b", "aea65997911e74834d8fe36e0c683980" >>,
    << 49185, "ca990b9f91ea8907fb4f51177b7465c3", TRUE, "7175be7fe3724266", "e92d5c98", "c00a7dc4fefc5d6ae77d38772bf83442" >>,
    << 49460, "dc097b4c6933145fcafc4e6fb35c2c70", TRUE, "3fd6c4c24cc550d9", "17accb54", "49748ed3139ffada1659bd5da7ad3611" >>,
    << 49557, "d8b615f7e6655e3702233409a93e5fb6", TRUE, "1bc116d89d5025db", "1f473864", "96060313c77872e594ceb57b4b550b37" >>,
    << 50120, "197735acb05441c8f9da5207db73e532", TRUE, "61a3c3935f893a6a", "70594bc2", "b9b8a5a46599baa6e37008d0a1856288" >>,
    << 50130, "d5196e87f8fb4720deb3952e360b369c", TRUE, "1f81abee1f761c77", "b72eb9d5", "ad2fa9b2ec75d8a7ed36068d8511747b" >>,
    << 50334, "00aa0c593c039dc4d8e11a7e379a3225", TRUE, "70793763f442994e", "2ab5aacd", "f0d433d1b20b27c2b0505eb53b7d6976" >>,
    << 50424, "2498ad8b60356838a6101591a84ff45e", TRUE, "213d424eb2741146", "c453932d", "e5c4f18046d13df75da1da743280b252" >>,
    << 50795, "0a72a16432503817d1306504b3cf3540", TRUE, "5d5558190169d33c", "ff76c153", "b9fd1c5a093ff7384aeac4d4498db639" >>,
    << 50797, "160c978dfc50627547448f7a78efce3c", FALSE, "2274facd5277915b", "5a56b3f6", "ab88c02202b80f71447e082f5f95a993" >>,
    << 51627, "674fdacd45884c18cd76e7a892451562", TRUE, "629ddfb64bd8719", "e2cfc762", "2e55e563a3259c65a67ba482fe47f81d" >>,
    << 51804, "71964a8edb774ff8b3cf16351b7b9bf2", TRUE, "76a915d467494c05", "31794214", "27b8c8610ba4146fef726e9ce4f8c9be" >>,
    << 52162, "ccebea04de9e63b840740c15ade872a7", FALSE, "693db403b397780", "7d8c50c6", "c80136968127fc0188b7b7206f5651b0" >>,
    << 52258, "15f7b6683e2b9b5d3d725a8f3c0f2043", FALSE, "5ba6f93b165f2c6b", "b1b4bed1", "be8499bead5cc2dc8680082e83df61d8" >>,
    << 52340, "e4e160a953995ad837df28418cb61e9e", FALSE, "404a8f51d2cf8791", "7596061", "98c64743b7432e9c331a8f6c143d943f" >>,
    << 52475, "0a89e7364555f95dde178f3bc5e702dd", TRUE, "7f67106d8fc87e95", "8b1e2a56", "51aaff4b62cba917e211190cf6efeeb8" >>,
    << 52514, "56ebcf3895d2ba7650d3a6bd25dd7033", TRUE, "d907d75928e7c8d", "b30faec0", "d749c309fa61a279125dbb5afe298c0e" >>,
    << 52586, "60c1bb98d2dbfc6fcdc3f03b80d47042", FALSE, "178848a25979e413", "873d4481", "3345eab02a5053c99c8e889c720c1877" >>,
    << 52693, "ba5d9d9b9db303c6e6d5d2854507695e", TRUE, "4ad4999bae2b1cc2", "ea46f15b", "f876bb4d9fb8db21b38134e7ee41adab" >>,
    << 52793, "330900904224345cb95ee4c5989f635e", TRUE, "4171b432716b265f", "e234174", "c96a3f5f8cfd41080323fcda26c9cac5" >>,
    << 52875, "df07d6c3664e27d5cb4a2d12500cb796", TRUE, "480ab726c5eba504", "e29ce13a", "54dde7201cad70045a1cb1db6f88eed3" >>,
    << 53016, "d31408375be96d6b71b0e005359b94d8", TRUE, "5c974678dd5650c5", "f570436", "3aeae75c9c3197a6d201316efc11394d" >>,
    << 53200, "1544f03aa630241e30aa75a66f6c7437", FALSE, "3941d762b2da2f74", "c0eb7641", "3724ddf147a4525fbfe7677d18618c6c" >>,
    << 53687, "d964ab92facfaa7fd631495a237f1bc7", TRUE, "184cb6831937279a", "d113e307", "c8c8228a8e920024d246aae4861f15a0" >>,
    << 54152, "321ed1e301fdf32be700aeaf357a760f", TRUE, "1afe6751f48047b8", "69b7a189", "ddb4e8f52b703864daacded9c8412be3" >>,
    << 54280, "fe45d3240eef2e8b2eaf0d4999760414", TRUE, "41453e8a8856c2f6", "cd0579d1", "14577fc386a9fdcb4d87e50377ecb2b9" >>,
    << 54940, "00e926d231917596f94bbddcb263e00e", FALSE, "122cf2da794c77f3", "9a8375d", "d0cc7f69b04c7af95ebb13df6df96a7d" >>,
    << 55090, "ba24104021652836ab3a7fe7f79928b6", FALSE, "51fff53aa34c3d61", "3d1e97bc", "2af47b0aaa751ff16fe5856b824836f4" >>,
    << 55529, "3b33682f03099fb921c52d9cba65d581", TRUE, "2aff5dd5645c83cc", "ba6a2fa0", "493e2b710e02396d6985be8392bd8163" >>,
    << 55779, "8e745f50ea2198858801d0fd71ca63a2", FALSE, "6a501efcb0411c6c", "75258ebb", "3816003301d827a7d10b79b20a5e86df" >>,
    << 55958, "056129116efec8fcd69e92ef8de68626", TRUE, "3991476656140a8e", "7ffb82ae", "fff4d686ac835fba61440966917fc12e" >>,
    << 56159, "10af0aea67c54d3729f3c75417522fb1", TRUE, "2fa608b3d29dabf3", "4848aab6", "9b8b8b2476005820f03f5c604b0faf5a" >>,
    << 56373, "f085c9ceab5109b64d02ce869039ed78", TRUE, "689157ef6114952b", "b77a92f9", "f1ce7f8d767ff59bf50f621ed77458c8" >>,
    << 56604, "c2a6009ba14109aac0ae68e40ae38394", TRUE, "6d70b03768b5d7e0", "bbba8d4b", "bf78ee1afb95e94ccfc2dedb6c738e79" >>,
    << 56654, "983bef8665751c7661b2643cbf0fab3b", FALSE, "7943a525d6d0eafa", "6aa93a95", "fde09e3f49a83ca9b3bde483a116a91c" >>,
    << 56841, "7de3bd1184dd21cf57bc41129a81d8bb", TRUE, "daef7f642c99835", "cb9d174b", "357df9a999c908c4fab081dac16aa1fb" >>,
    << 57208, "6de6a4c41f2b33c10503e6df256d3744", TRUE, "35a6bf9259e3a59d", "67ac3f18", "e57b50ba23a4234863a342145c786329" >>,
    << 57218, "22af06ae9d52e245457aa1198526d17e", TRUE, "3eb7da1f499dac09", "c6ff1eaa", "a3d92362cb26ea23bd37dd687fecde78" >>,
    << 57342, "bc748245b3b7d8a01d2da771735068b3", FALSE, "58a1c865276f05c0", "85d1e0ca", "332875120e15bd602d67fca62b8ba2c1" >>,
    << 57545, "e10171a4dfc10f530c7497f863b9e097", TRUE, "1c6335a1187f4e0b", "bfbeea1f", "5d874fe610320c1fcd7839fc8c0ff69d" >>,
    << 58222, "b705dea0dc3bfa011c6a6e5295c957a0", FALSE, "106ad8d33c6618cb", "930fa862", "c9e09372b495c9a688792f2a9f950e36" >>,
    << 58285, "a5827cfa5f3cf4a00684f914a8a14b91", TRUE, "5465c7e1575a1ad3", "e44cc240", "ac17c6e6f3834eee6b9f1cecc027be59" >>,
    << 58306, "1a43cc8e06dde05063addae9c3e148fe", TRUE, "f989f0055918c22", "caac11ed", "bcf9f967ad7efa32518d196ae6cafeb1" >>,
    << 58759, "24396f405c58c4fc68e62d85098fe395", TRUE, "635700ff7764215e", "642cfa75", "4d7c547aec5a9829b8a5623d1992fcef" >>,
    << 58950, "c53ec119277206e57f75c588a409db42", TRUE, "6084a115d8713fe", "44eea88e", "73dfaa23ee3995e5df08410066097a3c" >>,
    << 59049, "86f3198c0e5001d5db51eed539c2e991", FALSE, "4987352d37c34872", "2300bfda", "700c5e2d1d4b117007417eb273f0b80c" >>,
    << 59105, "c6cc639f8fc63b3181b0ac54dedb2620", FALSE, "6b14180ef6270bf3", "89984cdc", "4e5543655fda773d567db273c25a0487" >>,
    << 59565, "2b4bd25eec5495bafad9c02e33b0d269", TRUE, "30aead6115b1b2fb", "d63f1734", "4859eb82489d705733064404cc360f67" >>,
    << 59940, "cd7c0ba44c7ddacd5d67ff6b658cd550", FALSE, "33264021edb71c4e", "c7d0454a", "314b666f7272d7279e2104cc7274475c" >>,
    << 60823, "9e37b85ddea4529272f2f8cd16198837", TRUE, "79aec8e4962ee186", "79acc4ce", "5ca0719fa3eb009a78250008bda07a20" >>,
    << 61187, "04113bdf988eb04aca14d1fa6897a034", FALSE, "4bf8de40a3e750d8", "450bc6c8", "ad8156b066a69db5268e6a2dc9e2ce58" >>,
    << 61268, "2355eeaf3586189f822e4a97816adab2", FALSE, "70bb6b1cc0d7bec4", "e269e684", "7252f36d9849991c46815ce40a812952" >>,
    << 61311, "70d08acff80fefc96d04b3165557c975", FALSE, "1002c4c12974a5c6", "ea6eb40f", "3e1bb4e59c1092aeab70c658b19df211" >>,
    << 61382, "c6824a144bc3c386a423554c39cc108d", FALSE, "56897c153db4289b", "3038b94b", "4a266486a14748c8e89a7038808fd3ae" >>,
    << 61553, "3668a4930dc184202a8dc0ac1a9e74f1", FALSE, "327bb32871f64533", "6000c381", "8225a4fb741f1335b849940aaf274b85" >>,
    << 62096, "46efba71493a79d03017bc03cc5d9200", FALSE, "117db8635349bdf2", "d3f40aca", "6b25c13a4d5c0beb8e6986949e3450c2" >>,
    << 62156, "7173f5f59639af3d15f3ff69d6f1bdf4", FALSE, "72fe76b6a33bad9d", "84ab123a", "fb2c8b5af20fcf5409d188dd0c94ac97" >>,
    << 62344, "58d62aac1afed844c4065731ba49c137", FALSE, "50cd5c3bbe98c24a", "57509c6d", "df4ca943b3dd3e8aa49137fe90a348a6" >>,
    << 62435, "e5c96b683921142a4f6f2a938ec4f3fb", FALSE, "4814039c9f45dfa8", "fb73950a", "d26e7359352cbbed02df252748a6f791" >>,
    << 62444, "e7a8160ca483bf15866b738522852b73", TRUE, "4fb5963d16a1455f", "463c2be4", "19d5452bd6d4199cfee4de7ec02c5a82" >>,
    << 62722, "897248d0343f60a6afc297ad9e75362c", TRUE, "1ef954c72dd1444b", "12946264", "efe3ea13f98b04a235241a3975c17778" >>,
    << 62932, "a4cea66340c8143452d47782d32576b1", FALSE, "790cad4d4c2c384b", "f29f72c3", "79b08da6229861b355ed09ff09cedef0" >>,
    << 63309, "67879354bd431b1773cfc1f960e659bd", FALSE, "4908101a513ef164", "3a6f3450", "f8179e7bf54ef6877a77fae0346a89a1" >>,
    << 63844, "48055814cd40a7b60d6726421e211a67", TRUE, "b706414202cbe5a", "2b5cf050", "9fa1c6c3cfe624e649d8843e6fb8afcd" >>,
    << 64281, "f2047186ad33df7f99fd0c49effadc3f", TRUE, "2379f015b0fa52cb", "2dab9b4e", "252c8992d565c11016fbc7fa07a8bd50" >>,
    << 64355, "e33a7c842901fa825d752f753bc7c9e4", TRUE, "344128866e9781aa", "e4e1e8e0", "7267f99b99b47cafa5f3aa1b18cecb19" >>,
    << 64438, "0203aa3f62bae1901840c9a249cf4c39", FALSE, "41704d76d28238fb", "b521a9a4", "771f2e5459fb8add5e297416cd914c3b" >>,
    << 64516, "518e6db5a34adcf179abf26f205e07b4", TRUE, "53d2bd29e7feaf8b", "b7734200", "6c38f466d425bee8d5e9ad1d2fba525c" >>,
    << 64643, "f3b47dbb784c07984cf9ab20a3359833", TRUE, "36b68228d1e4b7c3", "e856c5bb", "28b4852fe3fe271e34f744d7997c7851" >>,
    << 64659, "9069b79971db6d72a5b291dae14dd366", FALSE, "74acaee26b33c403", "83fef52d", "fffcdb928379464bbdebfdbf9e8fadae" >>,
    << 64712, "d5ab39a1beae0912bc84ef0060d88175", TRUE, "7c00e047af12c382", "9143c75e", "ebe1c9c538f41f84950f297d448c33b4" >>,
    << 65439, "91c7967a33c97cc83e4ac30969b5d3b2", TRUE, "33fd94848d200830", "c6c4cc17", "0f152e68280334837def39b11475c4bb" >>,
    << 66251, "cf367af60443458909366748d2737696", FALSE, "6ddf167bcedc2b92", "334d6df4", "0c75d7be4939437b25337b87657fd442" >>,
    << 66317, "151fd8500c59bcb4a10d47454ba96f56", TRUE, "5d1f2b3cfc8781fe", "4b31c54b", "994f25306eebf3d3edb855ee351db47a" >>,
    << 66532, "f4d2f393da8155708f8330e3d2bddf06", FALSE, "21f0a5c8c9aa548e", "3b455817", "86837942babe6d3d7321dfe63da826e0" >>,
    << 66690, "13fd561202ec3277eb6d84f2a2b94beb", TRUE, "1b70fb8802ed00b6", "49c25016", "2c9abf338e607c92eaebe52ee62b9eb0" >>,
    << 66923, "4b22e9b5b11a6237875a94d86f3a0992", TRUE, "413d68e43f8412f7", "e69bafa7", "ace524f0c69c4d35ee784cdbb240a640" >>,
    << 66989, "258380514a78f1f4d6196b36dde90357", TRUE, "18cbd80eeb2f6a16", "26651feb", "ad5d1326c5b714bad8024a002ddf62c3" >>,
    << 67047, "2575dfc13bf91c4091a508cab37ec092", FALSE, "38141551e6abf6fa", "8a110e21", "5013ac40aeab94e4243a29de6770f8fa" >>,
    << 68023, "3a6afb6198fc4154e04e5effcef6eb58", TRUE, "1d9c225f23e3c944", "be9f4a20", "b91b64ab86265a4e950fb8b710890505" >>,
    << 68153, "5a2d86ade5ba72931a0c9772ae2ba5d1", FALSE, "447fd56be049410d", "52eb7655", "d878244b2fe84a29925c507be8635ecc" >>,
    << 68279, "eb40c8d20b4b32234e08aec64380b227", FALSE, "765d37de58f98f10", "b2859849", "86a2e0dfe5a7ad049cab5f06050f51a4" >>,
    << 68585, "d4537c7917d2fe849cec471a6120e315", FALSE, "3eb03819b90564d1", "2168fcf4", "781339ea68d6a9cb01088cdce55e6fea" >>,
    << 68645, "ac119eec4d2b03f711594b62561ee79f", TRUE, "7fcffad6e747462e", "e4f33f03", "1d00812ba9052513f3bd5ae35c7606ba" >>,
    << 68758, "5fd454862fb4b1e1a0be99ea6d8f3d25", TRUE, "5f267fc2a622784", "1be96ba5", "8e6f6f6632c3ddc056ad72a796fcca4e" >>,
    << 68949, "06ded2446fbd053a661b6ee29bc64cf9", TRUE, "1529f5517baf248a", "47c8b18", "3232d0740fdeb871b32a08c45113a49d" >>,
    << 69244, "78e74bc22c387755919257eb8a048c0f", FALSE, "58f55d2d622b0960", "84bd8dcc", "d2533320e49ac66201e72f5263614040" >>,
    << 69623, "5a8eb56d32981299ba82016063ceed6f", TRUE, "9b557811dc5f10e", "1fee3563", "91ccedd1a3713f54b6416652622d9b90" >>,
    << 69655, "bd03d020b3aabfeb61971c8f5dd3ee6a", TRUE, "75bba66689d40f3f", "9d024b8", "1210920bbc635ebc8af4fc3e8b74d027" >>,
    << 69929, "265151098c0ef9a15f0e8a217288bc2d", TRUE, "1d1d8208073348b", "93c137e2", "be424954df7065ac17c6c88599051f75" >>,
    << 70201, "63e316fcad0a9cbe0ca24af4a08b01ca", TRUE, "5bb1a44328c878be", "6f194fd8", "2e47957ffd546500adb9089a226ad076" >>,
    << 70598, "553a41ead54bfa2dde052c45ef91ab80", TRUE, "13b5a397a64a3d2b", "8e7c4e8c", "d823aad68e0570f31645cb2213cbef60" >>,
    << 70642, "b7b5f77197a6750d2a0c03e426bcd8d4", FALSE, "66f22a67f55bd8db", "d8dd2bb0", "e35347069d4632eae0b71585e2619822" >>,
    << 70693, "e4424a4b685c900d300af6a6c80a7a17", FALSE, "aaadb1c3a1addda", "abba34f4", "747661ad8d07000e08733a878de49d0d" >>,
    << 70848, "cbd00fb9ccb680130ba3405dbf6ea720", TRUE, "6927c6a99313017e", "4ae727be", "bc9bf27510e9bf95a106a2fcf33d95e2" >>,
    << 71020, "6cfeb2c142cabf42e924f971d703b29e", TRUE, "5777f7f0102db5d1", "b0adcce3", "512ad08bb1724d1a4bf6ff1500d1d4a3" >>,
    << 71262, "8f2e8919097c50d29636719439330209", TRUE, "13213e2fee4f485c", "7a760d73", "d461577505b91111d2d438469a0ec7f9" >>,
    << 71275, "e96bb803340e432eaa0752496bad1f29", FALSE, "621b305cd549f796", "a2cc0bee", "0e2bd71b3058953f39510d51f46e8745" >>,
    << 71276, "6adaa13085393f3d1d537f94274ddd25", FALSE, "78368ca37a3c0a3", "4ac715b1", "f6c0c467644a7b6ad89336086bb70a88" >>,
    << 71286, "66921e466fca2431184121f061be61dd", FALSE, "1499e9d8e02a5736", "6e78a58b", "fe626b4ab6b3129410c7db5720f3b300" >>,
    << 71290, "a26a9f305950d252baa6383814ff0fd2", TRUE, "189eacb3cf971ca4", "f32990e1", "909755576e512beef6b70e0ef1ad19c8" >>,
    << 71316, "6eafa4ce60e949b878ecc3fc7b2a222c", TRUE, "51d6038e9c11b1e2", "927d45df", "0894fc6e3206499075486633ce260c81" >>,
    << 71328, "9a3d9d626f99c4ca1f97da6bddbd5f1c", FALSE, "5eafdd9e35b853d", "d46ba427", "ed0a5af30ce4e5b79e77c07c4feba231" >>,
    << 71337, "1040269e7059ab7f4fc5e1b1dcce9cf3", FALSE, "18bec34c6b9f4009", "c27eb851", "c2dbeee87060dcce59afcbc68ef27200" >>,
    << 71353, "f45658102c49b30575a5df2b96fb4da2", TRUE, "6061bd6008b5f332", "3281e82b", "065c86fed8972f7d43dfd000bd4c7f77" >>,
    << 71364, "a1f94a1b7a7858947810c19aa42256f5", TRUE, "51137f293f7fb8f2", "ea806e71", "b33382ebfbb5cee5e324768043ca1308" >>,
    << 71407, "f5999d6ab5e3a72de44063050a9122b0", TRUE, "4b6622bb39ae0273", "e53eb846", "f019eb3ac276baf916b11cd218808363" >>,
    << 71419, "222f9f19d14f3f8d9f7c037ee790f6b5", FALSE, "6a8839d418019a3", "674d9c9e", "0c4d1cd287d9bdfbc00ee42d1288b1f5" >>,
    << 71438, "af8c495dfe46c7f54eaa078fc9d65882", TRUE, "2b73257f50abc814", "ad97db17", "2383ab6ccab678b6920fdd9652c1a903" >>,
    << 71471, "99c57e6cbc92cb52422df9ffdeb2a281", FALSE, "5add4322f09c161e", "6c9195fa", "6ee464d033b9bd0c93505d18b4956b9b" >>,
    << 71490, "4cbab052f0b0d430d6b23a694b47607f", TRUE, "4becb932df517464", "edee7a1e", "3b719b869285d2be835a97103fada803" >>,
    << 71495, "fe2ad06e72afcc4bfab7a376bcc5eb8d", TRUE, "1c4a8fab98d861a5", "2a6a835e", "99e2dc9744ecb2ed588c609a163d1ebd" >>,
    << 71504, "e9e10aab4dfa6130fb507a4ced18b33c", TRUE, "cc211168769e32f", "1cea6318", "5fd1cfb7bbc869f361d45f78861787b2" >>,
    << 71526, "0b419dc46e261374414d801a098dc32d", FALSE, "3b637c4f078c10e5", "929515a1", "06eb5882e9a2fa19090d264372163f09" >>,
    << 71565, "2565831ff5f846dc5bdeb387f165da83", TRUE, "7a505677c0723b2a", "907e698c", "f21f5187a9549a4cbe11f593d9a1b2e6" >>,
    << 71585, "6d432dc14b4d7b7bd8267af953715cc5", TRUE, "49ed37a4ec7be496", "8140e4ec", "bfe73d32fdb3d6df05b1ab1d2ad65268" >>,
    << 71630, "153b0e078086ae44668bda4ae71f1219", TRUE, "7cb64114bd1156b5", "aa595086", "b7d97162b2f04ebbf6d90d1ee5a1a33b" >>,
    << 71631, "b0631540627026a4e38fca7a0e39357e", TRUE, "6c39490e8f8d88f9", "efec26d2", "6dfb5543e447c2ee0441082531611d05" >>,
    << 71651, "0ab8592e9771a634b3e0671ebdcf7b6f", TRUE, "5b9f443dc8c7a365", "c439a9f1", "554d4c73f000c7ae4a71fffe2556f91a" >>,
    << 71658, "1bb18b7974eb46c35f55ac0f7c5ed9e3", FALSE, "7d7fa5b5e48f68bc", "b82f7c22", "a8ca87f8cfe27ef5f98b84fe6c0e0b7c" >>,
    << 71679, "6df139b9398f0e554b14c9acbfd77ef0", FALSE, "40edcfcf8b9f11d5", "104ac974", "030e39e09455ceb0e9dbc61122d8b93d" >>,
    << 71703, "babd610113c89c697e71a8654bd67a44", TRUE, "5b800ebcc19ab16e", "d539b408", "df41b573daaf095cab83057ae7913b8d" >>,
    << 71709, "0e4def3372ed13108663da4b314b2a60", TRUE, "138eccdf01434914", "4fb83e2b", "c721a0ce897f8d9d14dc3ebcbb8c618d" >>,
    << 71736, "003628a08ab3afcaeb59201afa45f49d", FALSE, "6179a1e17c7014ca", "871c461", "780cfe3b2000d2032607f8118a2b495e" >>,
    << 71762, "ba07a9612ce694c44c7881c6260626c5", FALSE, "70a8d682fa73b109", "61b9fe7", "1e89765cf6a05a5468a121dd6b72ed98" >>,
    << 71768, "5caadc12668f8bea04d6e0fc159dd654", TRUE, "1705b35ad6778a30", "9e4fbd46", "20c398e27a137b7c7f37446d31b1eca8" >>,
    << 71774, "103cb5c828f4fa3d07bb715de16d020b", TRUE, "55a0eed3cbf21546", "65c90194", "5da99cfdb941bc3b988023a03c5acb4c" >>,
    << 71784, "8247cece7d514876358625498d1deb2e", FALSE, "71bd91cb4def4ad9", "f0af96ca", "d624442a556e33b13c2cb8707e758437" >>,
    << 71850, "c88cda3f09e0b3127921a720b94e1329", TRUE, "2b24afc7271ec261", "fb31ff60", "07200f3c44b34d27b7d11ff3f4c490d2" >>,
    << 71861, "ddb3dd035955e18777c4fd28126ce24e", FALSE, "581dc9f74ee75dcc", "180a7455", "af3db0764bc623d19efce4cf171bacfb" >>,
    << 71883, "e8f98d241bb015b0dfff4e10aa8dbcaf", TRUE, "1bc878b94bee6445", "d4a44731", "dc58c0c7ffee42f691828ac9d9ad8793" >>,
    << 71901, "e132868d44894bfa729060789a92a8c4", TRUE, "5ab72af33900f590", "bc01078b", "55606535d94d8278be12403e5e336253" >>,
    << 71934, "edae735a43d194ee6750bec231efd7a5", FALSE, "7cba0e01b7ccaf6b", "fcd1faba", "ec117055a64cbe70a022fc8d2f2bb362" >>,
    << 71960, "b4eda02a27c3fee58af240f1d2285eb1", FALSE, "39b11c7074b80087", "a5bc9904", "2c5148de3bace48d2e95429280fa3088" >>,
    << 71969, "6877842918ee78b79fcc72d875607a9e", TRUE, "502d8272c77752de", "998e7807", "0298a7113ac8b17d94ecbf5c0b56973c" >>,
    << 71995, "5e727186fb112dd12084fe25ec9eedf7", FALSE, "6869e10579243995", "b956d3e7", "b461c31dbb855721424b40f9cd4aa656" >>,
    << 72007, "693f05518452a823eaccb46c131114f7", TRUE, "339343596fe318de", "5d8f90ff", "82c27c930a762cf26ef054cdd0b95c4c" >>,
    << 72021, "3bac5e83137aa3d348e323aaed83f907", TRUE, "28c12b10a91eea2c", "de32c8f7", "50d2cddb3ee7c4674332dc8bde70c328" >>,
    << 72023, "e0de945c996e857ce749e8d57e090ff8", FALSE, "7f43c2af657b382c", "e6f184e6", "b3b424270b1da5aba48d0ff52b55e3c8" >>,
    << 72050, "eea16b62ed17862543b0ebc17a269cfd", FALSE, "2702dac6acf171df", "4889e672", "98e2bc37a11dba9c47386653487b7200" >>,
    << 72072, "a1b5675b96cbbcb548fcf1e412908e87", FALSE, "5bcb902f87e84b40", "bdde9dac", "708127fe5b1a16906318f813e34c1b6b" >>,
    << 72100, "4014c19b470909b2c0c54ad171e47596", TRUE, "10182e802d4a7feb", "f5fb5d91", "17b0a4e91d439a7d9c0cd37d2513b62a" >>,
    << 72118, "c1d6fa326ef885d33188891e9ed3dbfe", FALSE, "359dfd00ec71e9b9", "de8aa79c", "c3be16b136a66a2965874f8cd69b5aa1" >>,
    << 72136, "275504fc4cd0c816d2fa2afb7a8931f3", FALSE, "5181f3925dc9a9c0", "2e4bb17f", "34a18d1e7dad2b9ed0d23a479788b81a" >>,
    << 72137, "24e8991aa0a7cfe49c829adb7d761eee", TRUE, "4f6fc421d6ce0f6", "2dd65552", "2c63f35ddac2f5fad8b4a349021ad5e8" >>,
    << 72177, "38421aedcec709ae4ce56b2169bdfc14", TRUE, "252640be1cf25a0b", "86da8b8b", "c599faaace6470f75a5762899a506e39" >>,
    << 72205, "8240c96bbd06f26e4da7c11cb6ab07e6", TRUE, "6311007fd4a0d8ab", "60771950", "e43637b81a1a8433954adce84efce71b" >>,
    << 72224, "588c156d0e86da9333af144bd3008f78", TRUE, "27dabff6c72c8be6", "7ffea369", "ae569ea526078ee3d509316695d0555d" >>,
    << 72230, "ce4f524142572b7c0c579b257c849211", FALSE, "734654e37f63f8f9", "db8326c9", "16ef3f7ae9869ba70d67802dde15e0d5" >>,
    << 72238, "628398bce08bc58a52382f285e358f05", TRUE, "67f195383a74435", "f33b2f28", "23a4f5da6005c9ba5b4e557ded85c98e" >>,
    << 72265, "406d14f4604d99aad3a3048cd3943c19", TRUE, "1575c861ce628b45", "654dccdd", "2e1d6d78f5b4182e537a49a38770872e" >>,
    << 72290, "28fe1763ed96874de8315dd3b7e72e77", FALSE, "581ea2756567c5eb", "2a27d113", "cc7c4fb77c39fe23febb1580833c9895" >>,
    << 72300, "4ab6f80189edc211845da7a2ad5c5aac", TRUE, "6ea5d2d723ee84c1", "49463a55", "5f23a8607c6b696455183aa9685b6ff3" >>,
    << 72302, "da4f1138119fe16e37e519ec36878148", FALSE, "307cd82393e83c8f", "37f534ed", "993f0d1b49ec38df963e05fbf3d59bbb" >>,
    << 72310, "eeb8258ea06878fade4c64d77453f77a", FALSE, "2a67981cb07e97e1", "676a9d60", "1e5550724d80703b0f2108ae84d59a5c" >>,
    << 72329, "4255d35939656458ffea5faf624bfdd6", FALSE, "1c8b1bf7c32b9080", "cbc00513", "6dceb2a9ed0c94faa0a2eb316b0898a1" >>,
    << 72337, "8078e421e0143196e49b819f489b0d7f", TRUE, "12c9bd4f25d7d6c7", "19e52c82", "8a88f84eb0ba799e38ec73806df80c63" >>,
    << 72350, "bd3f2f57823fbbe6e9ebaef9208707b3", TRUE, "58e059d42ebefd31", "a8179c8b", "d30475b5f9161a14b92c036ca7018a4f" >>,
    << 72388, "6318aabce7af247ab8fca430e8bd0730", TRUE, "5ef576b15b33dce0", "eba080e8", "e8d153fde5ab18f28e265f51186197b6" >>,
    << 72394, "7b34227c53185fd68ba3ebc9ae0a1d52", TRUE, "5fcaf01c31a36b39", "5e7e87d3", "8fb4c00508f1f0e985e13244cfd4df4c" >>,
    << 72399, "06a02e6ec6cd52f8f536562842ba873f", FALSE, "1e3cdfb6535137c0", "438a0345", "92e8221ee83ab0aa891b139e4b08bb41" >>,
    << 72410, "c7537e25d1090ff0e90d225bf8516a3b", FALSE, "2454fecab10faa37", "446be3dd", "7f0d25d5ed5b67647f00934311ba9edb" >>,
    << 72422, "d7e335b0cb00cf812773e71b6d461f34", TRUE, "38e60e6f658e9b5f", "6f06b6e4", "a34dfe04f8600ddc02f5f87e90b011e6" >>,
    << 72494, "2beaa069ab3c74f4ebec137d0d65bc25", FALSE, "54ac86ba5ab06bd9", "6c0daf72", "09f7d78162077373939fa68d43829a1d" >>,
    << 72496, "3b42e146959205572279b8d0b9fb4750", TRUE, "47aeb8864d5e763c", "e6ad1a40", "abe76c5a68675e2915780cf418747bac" >>,
    << 72516, "da0a5cc61d08ff7998e7b6d29cd5da85", FALSE, "e13b35d0b7d016f", "bb4d6c6a", "635e9a56171601ea806431fb32fe36c2" >>,
    << 72598, "fad24985f44cff7f9eac6f03819eaa05", TRUE, "3136193c86259ae1", "85d6e391", "9bc9128adccadb9ed0dc7a965d95851c" >>,
    << 72601, "e9bbc17b3ec54ea658dada16b83c0129", TRUE, "38ed121506b93374", "213b2638", "648b2c56b68e720890fddb76279e8ac9" >>,
    << 72608, "b14501cf8ca22e9591abf98731a86642", TRUE, "5159eefbed54e9ca", "ebba92af", "be6a35257e6bdcbbdeb085a1c05fd0cd" >>,
    << 72647, "1dbd8f5ee485a1b2641e174d2e0214a0", TRUE, "79f343dfc094d2dd", "18c7c487", "37d9131f6597dfb619a492a507b37508" >>,
    << 72648, "6912303a142e62455095074ab73eb594", FALSE, "7ae6f6c29246e271", "f572b443", "3d35fd6ba3972cc48f7dceb137939b1a" >>,
    << 72721, "1f05c48509681ad3d920e413699d7e14", TRUE, "701233a4206177e6", "f2b813da", "3dd6f9c20fc8d499b914ff7b7dbd3f27" >>,
    << 72744, "cf571bb6537ab23d7fb58f54d7f5118b", TRUE, "6df44ec27d8463dd", "2c7c1459", "f9837e1b0f105c8f5987427590abec7c" >>,
    << 72761, "f991a62465dd96ff75d77ca67f0e275d", FALSE, "7be5e03021f8134f", "ba07d415", "4b65e6668fa4b048176425e92462117a" >>,
    << 72768, "b072c14b1b7f70b354251fdd6059e71e", TRUE, "7114bd4db61dd182", "616457dd", "d835d3ec972749949d3c39f69c4df13a" >>,
    << 72782, "5c98572c62a8d19cc630e8f0ba9f8d8f", TRUE, "4dd22b5c7774711f", "a89f409", "4dcf835f16b7c2268cad5c83bb20b5f6" >>,
    << 72830, "c1884d586af7ae2e4d88b5ecc4ed6a2e", TRUE, "100ae0ddee3045dc", "389a59cb", "730d7415f83210cfcedd6a0523211293" >>,
    << 72855, "bd9f2a2632f38dc34b205672b979fd6c", TRUE, "760f16b7d001a451", "3382874e", "84d3f4f46a562dd81c19084a52adb44a" >>,
    << 72864, "2092cf4ab5855f1183b5c36fc4af0470", FALSE, "72bf4c44d28ed40e", "87bcb98", "4824d50fe7d056797bf334aae1c1558a" >>,
    << 72866, "addcb6c7f1d27246f1416fc3c22bffff", TRUE, "5ad64e4184a14462", "701de2da", "7340b879a4d5ce4a549f7012db76f874" >>,
    << 72881, "a06ce4c9f4923a38877f57ec352191b5", FALSE, "6bd1d294bd25a4c1", "92a84097", "7ab4ab177d1907bc2b38c6e879d9f869" >>,
    << 72891, "f13948cb361025d05df42cd2fe80843d", TRUE, "30167a86d27b561d", "31c8c681", "86177dcf5df6d13eabfa223b10b92bfb" >>,
    << 72892, "216d8b8974bc8117c91342ac15cb34ee", TRUE, "6030080dcdf6ebd3", "a22297ec", "a805c6851221d2576309d33432a995df" >>,
    << 72953, "f40e2aa462930f2b544e89421e20be05", TRUE, "53bfe05b71faa8aa", "2684667b", "93c70fad11c6aa73b7e8801b7b25de46" >>,
    << 72995, "2be0f7280296efec732b667f13a130cb", FALSE, "255770906a48ce29", "52df83ee", "50678e01e5dfa80da35e68888ee8ef5c" >>,
    << 73031, "62ec9d7b4ee0836c3791cd2086e8551f", TRUE, "1269add744376899", "f5ba9cd3", "8d489330df75ffee645c09c562db3ee7" >>,
    << 73049, "791b81906140fced0be00c857d25e3f3", TRUE, "650c6974c7c659f7", "6d9387eb", "f528b3db192dc3e212b7b58d1ed17751" >>,
    << 73089, "fd88ec50fc6acce08ad0b3884ab946fe", FALSE, "313da6a8793c95cd", "14de3d68", "43605a60bd0db115ba8889235228c8d7" >>,
    << 73133, "ef4369db08659c72478cdf607e5bd040", TRUE, "1a7cb4647fd4e983", "48cda8ab", "6bdb7cebbc5869e373d6c241d1bb45b5" >>,
    << 73139, "1c930615d15cd65025d50ec5a3060da3", TRUE, "231ec195d63e5009", "af1ef50b", "7e73baa9e194223051f0b2d5efc4fd1f" >>,
    << 73177, "ad475e8f7434b56c670bc5bd3f29fb5a", TRUE, "34fc917648cbac04", "8bd0b3a", "2344994e2c76208a7d058fc05d670158" >>,
    << 73178, "81d805495e5040358a32fc4fd0abc0b1", TRUE, "1548aafcdddda850", "37053213", "f8c9a31753383f172804e3d5a1e7bc93" >>,
    << 73184, "78c7d77dce41aff9f917aafd23a61742", TRUE, "2c7a168394250148", "cc8b6a20", "f71bf8779e23fe7ad2fe5c568445084f" >>,
    << 73197, "ffd38c1522489344b3487ddbf3b4168d", TRUE, "4315057dd401e816", "10fd4052", "828a59f54c492af1c40415b87562f538" >>,
    << 73212, "8ab58a1e165b0704c20059c063edf4a9", FALSE, "36145c530c18f88", "e60f2afe", "db834e2475c8f1dd1111ea31149e657d" >>,
    << 73318, "1b7a20d7f58f8477fabcffbe4a9bbaa7", FALSE, "6999b4503f969084", "f4a98975", "922b5c3aab8837d690c7215d39211652" >>,
    << 73333, "a809d58a6a09bc3a6156b239c1b90930", TRUE, "726540aeaa2561fa", "b16b0b96", "a4347995e3c8ec57e7ee842b2da39773" >>,
    << 73351, "075811072722f31e6eb715fb9ae05cae", FALSE, "326662ac445872e7", "b5031238", "98db11bc29d98f128881449ba5bb491a" >>,
    << 73409, "311b210204f49341b8d656da671d4aeb", TRUE, "28d28e18b971bdf", "1c41ce7", "8f3cac1b61750d8f5fc480fb45250296" >>,
    << 73434, "36b7a5e94d63b7accaf91b4b519867e8", FALSE, "1af13b919a0c005d", "8e369642", "27e371879114a737ff60ae1e5df8d0bb" >>,
    << 73444, "089d942c01b12a430d6b040aa735ee8e", TRUE, "748721140f495017", "9d143927", "39898489994b9e8150686b0223377812" >>,
    << 73452, "b85e63d1a56f797a0c6c4abcd959fc57", FALSE, "3779f31e192e5790", "92076ee6", "5e33107f93d1e283f3ec06fc84b2a707" >>,
    << 73472, "92da83998bbd49f47052f2b5b62337e3", TRUE, "66aa7eaa77277da2", "871b81a2", "906797bf272e2ff180ed0d776a180b26" >>,
    << 73485, "f8a68297866564a951f9bf73f37e7fa3", FALSE, "7b2fb24fefbff795", "743cb2b0", "3280020f3d9996ca222b8ee24d31ed83" >>,
    << 73487, "a170044c7a4b873a8d30ca8117ffc42a", FALSE, "476c40be469f6b0c", "225432c2", "127a6e539ef4e79c147b3348cd17f382" >>,
    << 73530, "0e11d5a58cde5abf8a94c8415d86d7a4", FALSE, "a4f63f0dafe50e", "6eba1ab3", "3ff39457d1f82f93ed68d7cfc6d22848" >>,
    << 73562, "30330762c153a3eab0be03953b8a5a3a", TRUE, "694b50177fe40709", "7f542238", "4865030d3718fe8dfe221f9e046d6f89" >>,
    << 73572, "28e2322dbde28c27a6cc00575b23f21d", FALSE, "6bfeb9c821a10919", "42c378ea", "f7505a021720b1e6d1fb3ca9bdb2f3d8" >>,
    << 73580, "0131287e70852447169e2a0378f40e39", TRUE, "fb8551daec6551", "dcf2dbbc", "8449d4293bad7838d6402704f4a4fcd0" >>,
    << 73624, "568a97fac1e9a218161dd47d506e3106", FALSE, "903d253bf972b9c", "b8b3685c", "a69d8eb7ae4841f8327864288f770908" >>,
    << 73630, "9f2542344dde73404aadbfea939cd006", TRUE, "57efe0dfa6df65a7", "13ec48e6", "aebceb26b5de28e830d6adb4410485dc" >>,
    << 73633, "d6dfc88b576f9fe193976a86ac61b8a7", FALSE, "1ddec8e1b0b93f1a", "37455b76", "c437113a294105c494f6cfcceae6ad29" >>,
    << 73641, "22e7eec0300cda549b8851bc571eead7", TRUE, "59c02c6361dd5be0", "5521534d", "6009b4e26a8262a682360b35a51716d6" >>,
    << 73652, "9e28b001b28409cf5506550c507c7c0b", FALSE, "701f578dd91e2983", "a41c83af", "d95e4527e2dbd0a0379b56d7a5d64dd6" >>,
    << 73668, "a9f7558d3b0d0cfb0493441806e2d18a", FALSE, "4e02538a5a051a84", "40c5d1ec", "ef4488180ed50a50e83f6233d6f85c60" >>,
    << 73673, "de528f2c9a48677c0c540c70770ceebd", FALSE, "3bc04e4a83524b98", "58470734", "8636811503b025f0ed39e210261b9cb6" >>,
    << 73681, "813524d2a92a4fc5314bcb4850444ec7", FALSE, "37790253918a717c", "3ea84dce", "fe7f9f7be896522057b7addda11afed5" >>,
    << 73709, "882d0a95d16c20484d9999571acafec7", TRUE, "3491d55013bf11f7", "86e40d47", "a7ab05bd990bd82235778b588e4b2226" >>,
    << 73738, "48bab220c00c05e8c11ba495c87372e0", TRUE, "799312c03a08e01", "27f5750b", "5dcb63e3c3e4d5e3da3b401bf00e1613" >>,
    << 73755, "7a0f436127ed1c6c5fc8156e2ba6fd45", FALSE, "5b854f4afce9e340", "94df35e1", "97c562f2913b2841652efa1ad505456a" >>,
    << 73775, "165f41acdc7590bccf1ea672dbc44fee", TRUE, "75ae64d4b97ee282", "e95d1131", "0b41d0917139b941899ba9381469aa61" >>,
    << 73791, "6c9b0a13e42f025a58b36616566bb643", TRUE, "30e47672d6be9b09", "ecf268d1", "84199078dc0bad39c3c741d5bde61cd7" >>,
    << 73849, "c487c03fe966930bbbbef25a3711be7a", FALSE, "786fdc4c3603fdf5", "6e73dd7e", "3afe6c2c7313fceb6bab06f4cb475ad8" >>,
    << 73894, "635ce73127b81ac58e4fe72bd184085c", FALSE, "51e9e0ed2063593f", "f5a89de7", "cd501f025d489b8785f0e6863302f890" >>,
    << 73909, "9cc67793a81e93b02ac88866518233b5", FALSE, "2df36105e7221017", "cb0333c2", "eca2244effa9de5463b51afdc0889ad3" >>,
    << 73925, "bb7327ab8347bbce7ec4c77ad4d4285c", TRUE, "692d8b16c55565ab", "b8bbdf3e", "66dc6fe8fb1593d07301b75ad61e58e9" >>,
    << 73942, "7c940f9b667948077b34b0bc9d01fcbd", FALSE, "3f891753f9f8139a", "e5792dee", "f6435cb6f79f336cae0e2947f489839c" >>,
    << 73946, "982a514d6fe3eb935926d83098df5f16", TRUE, "2e3a464b527206ad", "d58c15c3", "285af4fa08982cb84fb74d92f83696e0" >>,
    << 73949, "6dde523299b3def711139cbd09947df2", TRUE, "5c36541d4b7e9e40", "d5f0c6fa", "df94d0ca3f7fb513121f4f67ec3719a2" >>,
    << 73995, "909b1965bee73347cc5c670dc469b01f", FALSE, "7e4d92a775e0d23b", "7d644aa9", "b75e6b73a1ccf1bbb7abaa46e29da459" >>,
    << 74005, "218e0b00dccf127a154f0eb92541a8d6", FALSE, "1bce09e0816c5427", "a5669762", "c252efe09c1661b43718a60f78441a3c" >>,
    << 74009, "d9be2cb07f180dbaaf49af755dba53a4", FALSE, "3e04368862c86865", "e469cb1f", "84ad09a5f1c44bf5f37a0a4001eefa82" >>,
    << 74050, "0cce1abdb59a13c14e844952d8ae2180", TRUE, "2730a908b22df8cc", "93f6d841", "45086d738e67e2e3331ef30dda95e876" >>,
    << 74051, "43ff2b5298817482a12f846a708fc342", TRUE, "4b22d5acadf60e69", "6d06fdf6", "21feaa3d54d6682bdd9be0fff868e20a" >>,
    << 74159, "97cedb1e103b4dbde92466fd9dc38fb6", TRUE, "396000f9ed99dac4", "224968a5", "8b7ad1917a92b481df3b9711911d4ff0" >>,
    << 74214, "1df974bd61b08f2a1be335a528ccfb4e", TRUE, "71d3d5c4c2d9995", "a2fe0984", "48cdf277e6a82a88dc740c4c0f0a86e7" >>,
    << 74268, "8ae01ae3a91140b71f015f299fb95f09", FALSE, "3bd6947e2ea94e77", "26a8be", "ed422bdd0fa008c1324d3c25ec945f17" >>,
    << 74301, "71a729170ae3b41723457eb9a2652eab", TRUE, "1919a5d26f4fea85", "8e95b231", "f2a6d40c8c6e302425aa8e25ae87ca67" >>,
    << 74306, "3e1e19c071a1a565ed8078c0841f1b41", TRUE, "33c7e066d64de980", "33f15aa0", "9bfd84114f6534e8dfb8523d5f3e57a4" >>,
    << 74347, "41f40a3b937395b6167bdf867b3bd7c9", TRUE, "3099cd62a2bb1974", "8000b94c", "7e120c8acf8ce9777e9868879427c18b" >>,
    << 74365, "24a421d281f238d9e5967f5be40afe09", TRUE, "7f7f27d2ce8c1b76", "4d0d8cb8", "b43074a5bb7977628b7cf2264113d0cc" >>,
    << 74376, "17099952f92719e1b5e530da01de9461", TRUE, "51af922402e5a2a", "d588dea6", "d91b1cebbe656a64c45236f96fe182fe" >>,
    << 74392, "be5cb8e48886a4c454b3c8eb624758d9", TRUE, "1ea7325b2b9197f6", "f83a4522", "7f257242bed4e270e9a2dda37c2204f7" >>,
    << 74396, "fdc2c7fc31019f537b3bcd93add9a7a4", TRUE, "2a8ca7be6873d8f5", "1c98c77a", "db61e7d7998324c5087bfe9d0078266a" >>,
    << 74422, "c58235207339527541c7f8acd4b72bb9", FALSE, "68ffbab5308cdf28", "f43d148a", "87903e9987b45077ef15d1b6675b3a3c" >>,
    << 74430, "ed66fced15b214415a4b23d51c8049f6", TRUE, "299ac2291f3ad196", "13f4010a", "1f96e00a6b5cc24201a2961236913840" >>,
    << 74455, "bce5134d3b6529a6442c9040c749ee7a", TRUE, "7c6fdf526110d035", "697411ca", "c71f646fc63308c8a5b31b3cc2fa5e2e" >>,
    << 74487, "7cd96215bb75c60e4269648d759c4799", FALSE, "24c15a07e325e488", "3119299", "13428a73b8768b643a52470d685c0a24" >>,
    << 74572, "7aca8e57c7a3f03ccb9d1968b34d7ec6", FALSE, "37f0203a5b1fd585", "a49ea4f", "482908655e0030ed7ee91c8e0d89902e" >>,
    << 74573, "945f8e5278ad1fd8955f07556ae03f59", FALSE, "405d12538a3bca29", "2cb10a84", "0fdff216c86692334480da1bfb072fd4" >>,
    << 74580, "72cfec26415430c7baf271c686a3b6ce", TRUE, "43b542e43352d8aa", "b1de2769", "d30d927dd5139de83f6cb796cfb7f8ec" >>,
    << 74603, "9fb73181aeb790ee32c8345b33b2e758", TRUE, "65e093a6f66ce7db", "3846d368", "da9da6a0208b6e63fab0a30880808fcb" >>,
    << 74665, "dafe55acc6fc2563f0196176ae90f32b", TRUE, "83d8fa6d7f8e1c8", "81935aa8", "0464980e76e30bc9020f1d2ceeb661a3" >>,
    << 74687, "a08aea21144c2b1bf31dcee01f501af8", TRUE, "7453988ca6648e46", "5c31fe0e", "68aa2cd51f5dd554fb3c75157530bd47" >>,
    << 74723, "d40f46ee6937764d2dfa39f453d217a0", TRUE, "4547929cfe033bc6", "55b4ab84", "dc4a16729f2a8d9be599dd55acf188c2" >>,
    << 74725, "0916cb3b000c50e8ff968eb4154d9ba6", FALSE, "41998829cf452eee", "fdf10748", "c93f34473cc37dc81d8840af62d60f44" >>,
    << 74727, "3c99bb93b13a93c1f9a9a87f4e548c80", FALSE, "42806e237dab4154", "e808eefa", "af2178d5d2d78cd78ec37434e3f4ab0a" >>,
    << 74734, "aeb0f51ad8945902c03cad5872ae3763", FALSE, "3f4ce562423691d1", "44f8af54", "81a3cfbe795286adabbe6865495f3e40" >>,
    << 74788, "3d0283f026051a8852c7daf36409ed23", FALSE, "198f6fe7df7e4a5d", "1643b024", "47727a2ab7a3eef9bdda330c099af9bc" >>,
    << 74809, "046df34c3bbbe8f04e89fc91a4f5b69f", TRUE, "53990738e34d2dd8", "a94434f2", "4e720a944fc25a4c48b3c026ca69b844" >>,
    << 74817, "05ed67de075dcd156bd5c19461832322", TRUE, "3dccaf90a03d97ed", "7e10e80c", "bad7b5cf4806060560267a9fbc9cbfb6" >>,
    << 74820, "e52a3dd08c4dc6feaf22637768eb765e", FALSE, "66530fccf26ccebb", "254d0189", "fab7011bb9986479a22964b7203e21ac" >>,
    << 74838, "9c25c24431b45fc22d30082eec959a29", FALSE, "4022137aa464137e", "b4b674c3", "d5adfc6a1fbe444e8e1c9e9b0426badd" >>,
    << 74852, "e7e4d337326c8ed19ac1d1637cb873fa", FALSE, "2dd53bc4faafde89", "77637b38", "8c695ef83807c338a55f2649c2a5597f" >>,
    << 74883, "da1f15285eb9656a24f42d08add342ce", TRUE, "ca9f2d2bf5f290", "ec7e4e0f", "65d20e317bd2a5c76cc8b5a43087bb8a" >>,
    << 74898, "ec39db36b8a4a2fa708c9f530df2b0b1", TRUE, "59d6fcfcb91fba46", "6e5bf7a", "fe58ba9d4463d38a6c1e30694e9b403d" >>,
    << 74912, "0ff70ac60d9c49d3dbece78df025c837", TRUE, "78dd785068fbef3", "1c1a5b0a", "83d191d1a979c4dbb8ef357b842ce58d" >>,
    << 74957, "e51176a509ad26664eb68f817e3efac7", FALSE, "18b1e2431e56bff7", "560e177e", "8cc7ad77779fe0e10d08d2615c735873" >>,
    << 74963, "d70a8041bd2e2aa3167131be740ca736", FALSE, "358163a2ab385d08", "ddbde13", "b8c4fafb48a4f5aba3b3825ebadabb85" >>,
    << 74992, "e7709e9d918a8be79a33cb19ffa60ed0", FALSE, "7c262c21bd5d6ef4", "d282deeb", "79df1aacd943f0c1983531d1716fdb71" >>,
    << 75030, "c051a5afcd1e3b8bd16fe75e8517076f", TRUE, "6495a9458e2f2871", "d38f14f6", "fa72bc02e9c0aec9a5f1f5baea476344" >>,
    << 75093, "82f7fdcc34b674f6965796838f0deb73", TRUE, "63d706a6fffa944", "adacf9cb", "fe12eba3a15db719b96660e61c036c54" >>,
    << 75100, "47898890d9e07536c0071b1f384a25af", FALSE, "1035ff4db8c61e60", "a6afad9d", "4184a3dac80a03288ff820d00462e93c" >>,
    << 75135, "b35497636289050bd45e7835980a168c", TRUE, "7d726e12b5d8212e", "61244403", "511aedbb99df9e6a7d8233baa325ead7" >>,
    << 75194, "0396d61620b083311ffa620118ec31af", TRUE, "76ae89b3b66208a7", "598c8016", "0e3c0d9a3e69837b06682ff8bfc77212" >>,
    << 75215, "5baf0203a6a40762fb37b0fdaa482c3b", TRUE, "15448db24dbc40c3", "77d68cb5", "b60cb6104ffd715616a0a34800a381a9" >>,
    << 75238, "938cb5210fc6b5abee0acdc0e922c99b", TRUE, "7d87307cb45afd7e", "bb0e6d2e", "8d17aeb8ebeac327d4f5d5578bb226ab" >>,
    << 75257, "deb16473aedcd82792dc94313ab398ab", FALSE, "67ab1247b5459312", "32b85d52", "0e7629e0759fcec40c6f8ccf29a13d74" >>,
    << 75270, "637d5ed85bef77cd9ee44b9c2404edb9", TRUE, "3e8fd7670d588eb9", "381230f", "33b41f8a4b46a49e900de4f8d4286a96" >>,
    << 75278, "4ceab6ca7e3a429a20c7457c27433fd6", FALSE, "7229f7d01a3c002c", "8b9cf549", "77f6d4df008384c2d14c5b8229691f41" >>,
    << 75330, "8945489e7208e98c353ed9b35bdd09eb", FALSE, "676ecaf7583710bb", "dd390d44", "c7c6859d93c62e56dec785595249fba3" >>,
    << 75361, "dab05ff39466e03d1824e4c820f5ffb9", TRUE, "22ef63a7240b84f6", "873298cc", "68a7972f170dc9054adb032265e3448e" >>,
    << 75387, "28f5d5fd1497bd8d7efd26a44d1aaa72", TRUE, "678a0c37713a1025", "d200019c", "c83767fabefb1fccb203c62933b77b48" >>,
    << 75484, "32b62260261ec5d67e4fe2419ae9caf4", TRUE, "6366707408607d7f", "7ec2b551", "44f5d14b801192d8843bcc01cfc3538d" >>,
    << 75528, "73d4ae18d5784625f2a27c2c469639c3", TRUE, "3b15de56566550a8", "61fcb115", "af7b531eb2b15c008d2d29880e128972" >>,
    << 75583, "4af94c8e7b4963f9d3c8f87c534f3003", TRUE, "40bef60b0383eefe", "dc097ab0", "4fe903d68051721397550fd408eca34d" >>,
    << 75604, "244379344c1e537e7427dbeff7d350f2", TRUE, "307a712f5a018817", "1b34780e", "63ca76e781db09ecc88a1e217dfc0ae4" >>,
    << 75657, "5483e27f4ea4b02ef3c8da0b5d17ab87", FALSE, "58bd23a9b296258f", "90c24c8d", "17a15cafbe883e663bccbafa90885e24" >>,
    << 75687, "33ddab3340f176c52b2f96cd5b163473", TRUE, "7579f474c4e7a263", "fff16d4f", "4570ad0ed72fdbeeaad1f0853c7dc941" >>,
    << 75730, "a49f0dccf0ef32db4f4a970b55361b56", TRUE, "5dafc458f5a5c205", "6c7bd46d", "62dafc2cd5c91ac65c715b1720851e4c" >>,
    << 75744, "971c467b0f9ccdc4b12aef814f74a51e", TRUE, "4c8d0bb3e1f8969b", "1ef9b807", "af9dae77389debb97d394b273b6a4482" >>,
    << 75756, "5a6e2200b0b1e122465f748146a01ec2", TRUE, "1b9e54a8c1c9e7b", "6a409640", "af47bf906e1b186fe7faacbd12a6f609" >>,
    << 75792, "2f3b0d38bbce6b244d8a9d5f55dc29af", TRUE, "7f7f27b2178ba17e", "91b950b9", "d05d024566f11af77d5a2c274527a411" >>,
    << 75833, "d4eaa32ab5a0b82a7f644d2e4aec751b", TRUE, "4b2b643c43d01e76", "da9f0fcf", "1f4102a5ea003eabc8091d82741e406d" >>,
    << 75847, "8ba05127ac03c427db4e089115b31522", TRUE, "d4a2f9519d0e5e2", "3b8f4d0f", "c5bbfb04de942cbf3464ad230ab7dbde" >>,
    << 75851, "9194a41b0d07d4c342a27e13548b4c83", TRUE, "23d2c50a76485adf", "1f280c2c", "b9ec0e6f0fc90ce46a511ad1a74a151e" >>,
    << 75886, "208f38ebd11c290b01df2d8480379065", FALSE, "599db634b69efa86", "259c45d5", "3a07b72d60a20b0a210b91e1eb998df1" >>,
    << 75940, "a1b1a8d0a1a0a6873359d9a291e72932", TRUE, "1cbfe143b8a4426b", "c0bb4f63", "121630936c5f9e3c0b53323e65239e3f" >>,
    << 75944, "32a27ca0f7a49e44767ef30188c7d57d", FALSE, "66a1eb81ad518828", "e664327f", "ec90170ce0dffca81ae2726c6c51f1eb" >>,
    << 75960, "12c8be16c2eec870c2b12cbeb40de0af", FALSE, "55a1a7a3fd3ee3d3", "33c08a7b", "2caca5906f8c2b786b1803706d1afdc6" >>,
    << 76016, "8e3ecfd3eeedda9985bfd1d51f55cce1", FALSE, "121ab07cc6c7ad2", "874973dc", "1e363fab173632275f023cf56bc4ef44" >>,
    << 76089, "5501c631cef4cd3090344d9d9c760b20", TRUE, "7b06347006a5467", "a66b61cd", "5ffbb90e24dfc7955867d4af83842a1d" >>,
    << 76124, "d6596cf14a00a44bd44f96ca4edb2bc9", TRUE, "641439c7402b93b3", "1eb3b6ce", "dab0545a37121573340f98f01d70cc29" >>,
    << 76127, "05f6f39214eb279bc46bbe02735f5090", TRUE, "15eb88f738004489", "45be9308", "47338c5fb752df66d86a508cff81913b" >>,
    << 76128, "c944b9b142ee60bd790805818315e756", FALSE, "3ad93b323b21b349", "c9c43c53", "ca502d0a84854d827a4c24fead1e1ae0" >>,
    << 76176, "199dbd015e35aedf816f70d854debeb2", TRUE, "226150c6352f0911", "c4631c1f", "3663d61aafef4f22d56cff355ec6d191" >>,
    << 76179, "9f0a25d760f785a3c9f9c8d920ea922e", TRUE, "26d020ca29ef3c86", "9380ad51", "8417bb9509ab56517eec7928a885fe56" >>,
    << 76242, "7ca86d02053789f5b9d4afc16231d27e", FALSE, "6d9d14bcad7f0a00", "e8abb0c8", "ddb90700f0877a0ba374b210f86cf4bf" >>,
    << 76250, "05d3d57bbb252fc90abecba717c37c9c", TRUE, "569397a604d05546", "bac66eb5", "1cfca0a7cc132034b3bdae359efa4fe3" >>,
    << 76253, "d56b4c145f59a04c34bf540206a79124", TRUE, "68c4261ed35c0168", "3500262a", "f36779190d9aacfc76899b7c0989b6f4" >>,
    << 76271, "0bd373ba0ddfe4151a5094e13247d66f", FALSE, "39d3eb9b9f9b32df", "88ecc4ee", "fb463e91a4540f19504b9f07c6065548" >>,
    << 76286, "6848f78d25a55339544f705c3a1b1f65", FALSE, "4782dd468566cb91", "2b97abe6", "bc51da2823772c14eb0ddd281e12cc32" >>,
    << 76322, "271f19b299a2d45e3ed622c0b5a74bae", FALSE, "27b1054dc2f71204", "b1726790", "ba6a2c9d208474ee0be828ac35c9d5d6" >>,
    << 76336, "cd7ae75db8b3f3e4a94d397b62835211", TRUE, "6cf0f1088eb66d45", "ac645d66", "824dfd8672c152863617f2c9596a878c" >>,
    << 76346, "3a85166416ebb384a13b402b42cf1522", FALSE, "6f4a9e1350ad3638", "f2e4ccd1", "c7a8fed90bf15ea4dd2d9056d6d4a4ea" >>,
    << 76435, "b74452c50628581bc2a4840dc3df0c4b", TRUE, "39eef1788c63fe8f", "a8b987ff", "0007539010f181662b9d054dfae57d54" >>,
    << 76449, "4879762337ef606f51828568394de708", TRUE, "4d93fa5dbc3d289", "d7a43ba2", "d91669588630e5c3c17220c02eca0e36" >>,
    << 76538, "a3e5a23595bbe1b63ebf903c47c09c88", FALSE, "4b81f2fb25641ecf", "bfd189f2", "0c25ea66d792ba3c807843187fd97541" >>,
    << 76574, "14be560201f37054ed7c33b992d74750", TRUE, "334be56248de4082", "6efc919d", "6e7f74c126c2b60310616b6cf0d72a1f" >>,
    << 76723, "c4d10a7f4806141cb702d62c802eb8dd", FALSE, "25e2c1cb6298e9ad", "7ccc988d", "3114b43edc2dd3dfe5ca19a1139b568f" >>,
    << 76747, "ab7bf50ee99080a6390583d22e6de7c5", FALSE, "56f8dcf5652d2d4a", "bf0d28e8", "b7fa61415e55dd7e6de39479893e272e" >>,
    << 76771, "4023601110c460ac925a4efb6410b33e", TRUE, "1defadc957333113", "523b4ad0", "6bd2d8b41775a9bdff3304de76910624" >>,
    << 76777, "8a600375e61ec127fbb9b3e4b44b371c", TRUE, "4a4e5fdeb8aeaaf9", "73bf789c", "71891a5eef2887fec8fdad66ee6001ee" >>,
    << 76802, "1c9360c8f66f64699ad57aa8ac33565c", FALSE, "5052545051f7d024", "78ac1ee7", "d25b03f7d838af2f18b854026a50b71a" >>,
    << 76826, "670b42e5b9f52ba3385026d40a09f4d4", TRUE, "27e390c580c72697", "8c6473e7", "a85eb8d6b18b5c6976a84f7c18a351f0" >>,
    << 76844, "34d081c4b3fa85f96930d22e9dbba155", TRUE, "29838ec0c4357a9c", "3f0b8f5e", "80f51a7d9582645c59d6fafac4ba68e3" >>,
    << 76871, "470fc4fe75e8f23e473a5dfcb9644892", TRUE, "57ce47b7c804335d", "32393b90", "6d158038a7c31d6215c0398d86479f70" >>,
    << 76872, "f13c59a79bcf2d29d5978b33a43d0781", FALSE, "135052037ade5b08", "63af131d", "7f9cdd2f08b638cacaba99ada7af4e5d" >>,
    << 76877, "bee17288160866f0341ee4f929e9c1c0", FALSE, "174c028774f18c14", "246f6458", "b3d1cf6acf0e73a4dafb085fbdf447c7" >>,
    << 76903, "1e77853ecfae3c9706d1d002910f99ac", FALSE, "4935313d309925d8", "82255c77", "bba55f8e2bded7492ac080017a53382c" >>,
    << 76910, "f0cb348f75b15588ce7111ffee54ceaa", TRUE, "4e2cade22f2c0c9a", "8bc883b9", "05ddba9da28ba38260f5b74660ab518b" >>,
    << 76917, "a43d25146e5efc840ad12b13acc8260a", FALSE, "3ef40ce4205702c7", "a9838ce4", "89302c3ab9ceeace06aa2a85a0a4deab" >>,
    << 76969, "c6a47bd56c4aa165b94afbc3c0e1ecaa", FALSE, "38ed4b8650677a49", "123a03cc", "890368137db585c91ca917fd36619597" >>,
    << 76991, "20cf3f68f45b15451d6df544160d3f7a", TRUE, "84d43e2a93f58bd", "bc05cb9b", "de437ad892fc60939d9c4807506c60b5" >>,
    << 77020, "f690904e345aebb0d08d73608cd3498b", FALSE, "2b1d8801a2851ef5", "2e7b7c1e", "b83f957dff416358f21b21ff7850afeb" >>,
    << 77029, "2aa2c0b0ea0a331e0d56e67f6aa08c1e", TRUE, "28cde940bc24ffe6", "a9239ad3", "a49a6eea9d987b538817631eb1c94981" >>,
    << 77058, "ae3a6a86fafe8b0b1a3f40e0844bfa35", TRUE, "414e0e04ca52153a", "f98d2fac", "4f17eb61f796ba35e5a162081b75fe23" >>,
    << 77121, "e24d30e48294d254def9e147893ea9eb", TRUE, "578d0f24cd87ba35", "29069c65", "1069e64df89302930eeba23d3f573abc" >>,
    << 77124, "44d7bdd209701f7a9702ff98ebdf2a7a", TRUE, "127cafd57c353895", "5ff81ebd", "a1c085460ab51b08bc5e65323a807d30" >>,
    << 77148, "95cdbb27e56d98e19346f22fa32a21cc", TRUE, "4bfa09bd9e97b7c8", "4ab983c3", "1d599e0b1450614efdb7553f511febe0" >>,
    << 77201, "9a34bdc075cfaf5d9ba47762897605ee", FALSE, "1ff1859df044e40f", "648ecfaf", "2934957b10a7b261490443df1a6f57c3" >>,
    << 77249, "b6dc96873e05d7d9380584613af6f3c2", FALSE, "3c5c3a510691c8ac", "9ce31896", "ac33db39f772efc54ee4c5e4a4185320" >>,
    << 77296, "3511ca0bfed3897b8fd2fe099b53e07b", TRUE, "32667458edfae08", "9428e76e", "21ea9161f1ea22fe99bf80df2d440403" >>,
    << 77403, "48c1ea7c9d7b5958be752b01625a079b", TRUE, "21b3e455e1b6a8ad", "352bbf84", "061714940e76695e1dab75fe0df3b18a" >>,
    << 77407, "65027f67129d322712c052d82058ac19", FALSE, "1bb8113fd45158ee", "2452fb09", "f15eb0f5fa62462e6c0e3bb0b3a4049c" >>,
    << 77530, "dc9985fc5d3016514b882858a6cc2991", TRUE, "5c52288fe9b0043e", "617f1553", "dfe9eb76a3e991ef6da7cb461b0537b3" >>,
    << 77535, "bde886e4d37faae4572f152160644944", FALSE, "2ef4e65bc6eb21a6", "e8d15707", "f900985802e892f19f31747af5d292e5" >>,
    << 77545, "f45ed2af086e53e9132bcca11c5a5579", TRUE, "21df18b573e4ad1a", "17c3b59e", "126a809ceece90ac5f0d2ec941af8770" >>,
    << 77549, "7bf9bd9b34b24112ffc402bcde9ca0fa", TRUE, "4745053125a06246", "3b02e6d0", "12de78318a4bc1a5bd3ece6c3d8c8ef4" >>,
    << 77598, "ddc143de949621f9a64da7d1d48b2cd1", FALSE, "543e74762b938f06", "7a23e5a0", "003c0514b97ee94425d4dfad85f75d0d" >>,
    << 77682, "6ea481e451b51337492867abebcec21c", FALSE, "44b68c63c242eda8", "400c6b9", "ad7ada7c9512d2830b01c447a6e669c0" >>,
    << 77771, "30ddce4a7ef9bc393e60524b0ba9980e", FALSE, "600a2a167ff4279a", "abc4c8eb", "11bd4a38bd42a4f292c9a2e47f3d6b5b" >>,
    << 77775, "339bef7386f2a2a30716e0b186753d62", TRUE, "1864bb59d0a750dc", "7e119028", "cf2cd5318b469f28a9ba7248466c7bc6" >>,
    << 77880, "e689389b22f55089f9af0749a2084132", FALSE, "73d8f273bf44c554", "e40473da", "3fc0eefd7e067eff0581638e28b17734" >>,
    << 77892, "51eeb851295981d2551cbbede4adf687", TRUE, "b0de95243037e8a", "ff441919", "f5ab354cde70d9950248ff86b7ef66bc" >>,
    << 77944, "46ee3a863e3303668112d468ef3c7438", TRUE, "234f9739c3b3e3f0", "3c80fc32", "6de9ef718f976cb0bd0ce5850dcae50a" >>,
    << 77961, "5917388480d656ec3fa29508e23e9318", FALSE, "418c6ed8e668da6", "ac4f0d6c", "d869b961c1ddc84718646c22e73f82f0" >>,
    << 77987, "b0b7a16b6da840c2e2c68ee098cfc456", FALSE, "6aa20f7fa0912513", "4bc35216", "0c2dbe129c047af4c28b072b61676ab6" >>,
    << 77997, "7d0443c5f11e36947882162eff191515", FALSE, "4dd08e6072c1ca7f", "be17c600", "09c026463cc9a585550d438533aa1ca6" >>,
    << 78009, "73b332b9eaeef91ce74c33ae9a574d49", TRUE, "2240a01ad4366500", "1bcb4d0f", "3b42d117eae3a8fe43745d980b19a446" >>,
    << 78014, "ffa6a55423b66816cb6d1016697969b4", FALSE, "325946bf18bd1cff", "672214e4", "119672178df1ae0cee8ae564ac492c80" >>,
    << 78142, "f2799ca45903628d42943b9612f53698", FALSE, "11ccff75a4530c15", "fd45640f", "1f9ad6d19adbb8c3957fe8422333fe15" >>,
    << 78218, "a27c635872d96516080d65212d243584", FALSE, "2a076ea1f2d1fde", "41b33ac3", "f5a39331c9da9d4642b668fc29edd4a9" >>,
    << 78260, "37ee319dc9fc6667dd6c7eaa151a6324", TRUE, "74ae8a04512c2a29", "ffc77cdb", "494a493ff7e1a3740b6a17edde1009c7" >>,
    << 78266, "0b1af0e2820aa1db142574cbaa83cfb3", TRUE, "21a31fd6e369402a", "c12cc19b", "1e47544c706a0130f323e4c44df51ee2" >>,
    << 78320, "e671ccccf8428ae6cf35fc5d6f0ea302", TRUE, "24ba2f1cccca498f", "1dadde21", "b5086387f2d427c4a006ff3b59006162" >>,
    << 78322, "91059317495c72054f4321fcd3897b4d", FALSE, "f01746b82df385b", "876ae0f7", "edd6407309b99a3c33021c03d3ffaf57" >>,
    << 78358, "5c0b6971020f89f865fdb13d538abdfe", FALSE, "320c3e45e40bbb7b", "4f861ee6", "a2974a5341b1041bfbe4a94a62da9fa5" >>,
    << 78411, "749f13d3e0ac0d06b8c74a54411a5126", FALSE, "487a855d7360f0d6", "46223ce7", "d5fc873e60d006a5212a06bbbd387a54" >>,
    << 78466, "4989479a6049ad2fadbfeb9c959ffab7", TRUE, "337a392b90d0a299", "12272946", "c8ba09599ec7b0bbc616962870efb284" >>,
    << 78517, "ebc518f8913197dc1e3659c8f4653459", FALSE, "78678b175c0889a6", "8e5ee052", "2b43c83981e3e316fa3f7d69b9e26604" >>,
    << 78530, "57f9daa8e64a4c676acaccd9726fddbb", TRUE, "4136bef743cb759e", "ec943f8c", "8d4a5037f06daaa9b43ed7bd939e4376" >>,
    << 78625, "bfbde408d5b330fea742302687845790", TRUE, "d94978beb7e1f3b", "dbb1e01c", "59b34ae767efb14547358bf522ac530d" >>,
    << 78765, "a775635fecf4e2424b2ba24876c84d0e", FALSE, "7eca82d67d7e6426", "ff18fb0e", "d96a2f1addbd92d03e08893b901a23f4" >>,
    << 78777, "2d58b7be1b4925b6f4edc391e7d01e0f", TRUE, "7c7bb3e4f3a699c5", "15437eff", "715f4ecef4028c888b871f45d4a7dc4f" >>,
    << 78788, "ea52e317deac23f98b0e5af144ba058a", FALSE, "65e8418cd4b489eb", "5f000bde", "b2e81d93fba074c37b57e90da06a513d" >>,
    << 78809, "3a8b1078d2ed38c6c59f6b3fc5b48dfa", FALSE, "36d81c93cc716d68", "85636cda", "ac4ca398d9ca932150b4ec597c2b7a19" >>,
    << 78816, "3d847931815b9ead4fc92d58a183a15f", TRUE, "7444dd3e2af136ba", "e9eaaef5", "acd506f9deff7487f5733c8a67d685e6" >>,
    << 78902, "9336ed863160ea4cedf1fd3e75f49471", TRUE, "43d64cbbf597dc76", "76373021", "79d583345e01eac5e794b8a776e93094" >>,
    << 78950, "dd9c81c3e7282564759a0aeaf6f2ff0d", FALSE, "4d7c7d4a09aa4323", "ccccfba6", "ad4fe956be9523a7a117585ea56a5986" >>,
    << 79066, "15d1c2d4572e8a255a22f0a8d678c4fa", FALSE, "33542f15b53032ca", "ed42d86", "b4fa8eb476be54b8b6a166ac807f42cd" >>,
    << 79110, "112bad9efa851b7284567356c6d34ed4", TRUE, "71b4c7c7e9bae937", "111f642", "86dafffc760f5253d3829c08ac2d57d6" >>,
    << 79128, "aafbb5951763cb7a38fa7f2eb31aa19a", FALSE, "61e5d6f0121ad934", "423fac45", "a4871f822a2527a73b4534f4e6039fff" >>,
    << 79131, "2d527eadbc0a0f4ac680434f076f846c", TRUE, "4c49bf953c2513f", "10d1cac", "bba7e981149bccf2eba3083217673a09" >>,
    << 79147, "146933634e5313de7a7ef5e9d9108007", TRUE, "12c422c9be708a91", "b22d654e", "df73612004106ddc2e75ab70a1c2c5ed" >>,
    << 79245, "9138b84ebc3599b1002aa2cc7f6552a8", FALSE, "262a914da431d7ac", "c1d7aeef", "c3c57261b6a73f36af987c3abcaa4c42" >>,
    << 79270, "01702518a5cbf06d546ba2374a2c1518", FALSE, "360fa0ba215870c4", "cd03c161", "eef361808ef2c00b36067d4ec28184f5" >>,
    << 79411, "90575ade138b531bc64c51ffd0fe9c79", FALSE, "22d39142d475a2a0", "b4491760", "f3b5349a6b9e7e114422c9dd28e8706f" >>,
    << 79417, "f164e8a90da66c92f54c4786ad1095f5", FALSE, "196906c683eb2531", "8832b487", "715aac5522f11b14d5021623605b61b0" >>,
    << 79437, "cbe9a3e436e2ef19ee59f243c620645d", FALSE, "2d8c7a17801ade0c", "3e5939b1", "9be9b8a39937abec6ba8c9b1a1f5c77c" >>,
    << 79453, "cc14810e3239b0ba19ef63f28df14c78", FALSE, "266e19e313e02dd8", "80a68904", "15b4df84dee11dd0607cdbd70538d0ab" >>,
    << 79499, "8890911b06bad5b9685a9957802bb899", FALSE, "771d6b9eb11e8daa", "eea4a4a", "b47b1f50108723b718d3e4a3172d694e" >>,
    << 79515, "df096f27fedd472b5f62aa080de4ec23", TRUE, "5dec9067cfb9f703", "cbac50e1", "b868a7419ed9e3e93628856c86ffbe34" >>,
    << 79535, "a469f41527fa8f25b2522ab8cf5a8a2e", FALSE, "51f1233c067d3324", "2aaa63c6", "acbf28a7dd51228305632702b484e7d7" >>,
    << 79565, "db6282871cd87976f2f7d313fd05a022", TRUE, "dc0c5c82d97c3f5", "3ce03c12", "803f37195728b0bfd4690dcd2899ad9d" >>,
    << 79604, "cc33cfd9a6b240aad82f9a0aa5b4a8db", TRUE, "14b3fec5ab0cc939", "9ea47df2", "0d1645f633bde6f0c7842f9880e95692" >>,
    << 79647, "2d6e423d512dd3ae2806150df4efb49b", FALSE, "7f5e493c8cdf5a13", "62ae1475", "cf72054b901b1bfc91889407619c18dc" >>,
    << 79648, "9a1fd89a3a0187d5df54e66966f972e5", TRUE, "51c6a0a8b9ec04d4", "e6778de6", "13a0e34f10c240b0baaef3b892cb4573" >>,
    << 79650, "afade901a5581fc84adebe8aff19690d", FALSE, "35722babfd9bab18", "1857fe1c", "87bae3af7d3924555b07d88f8a9f2bf5" >>,
    << 79769, "67dc50791a739c37bc0c9cd332e3fe72", TRUE, "580cd613c3a9654", "4fda45e4", "84dd46c0cf62b551aabd41aade9e4eda" >>,
    << 79775, "4774c8c279600e4618cda13b9e4d81e6", TRUE, "15f77b1d5d201c0c", "3dc29b2a", "4ac684efd511d8b2ffa08dd87270579a" >>,
    << 79805, "254c583255a41faa7b2cb3a57887725b", FALSE, "54e2459d124fd5b3", "1fa4126", "1df7310c0c3e244ada56566cd278162d" >>,
    << 79811, "5d094f075d19295f4f193bf1e340deca", TRUE, "2eba7dc57c4573f9", "ee4ca6ab", "feaabe3d076324deebac8b8c673999d4" >>,
    << 79845, "89d6220ccf4fd227ed6a7ea96d20d898", FALSE, "34220b603f9184eb", "702141fd", "7197e601a51cf5781fc4178f5607a616" >>,
    << 79930, "16cca47251869123e8295201d2d3ca29", FALSE, "6844563afe8e0b1d", "fcd837b7", "e9f22eabd37e340a7d785ae58f1e37ef" >>,
    << 79960, "faddbaf22fb1fa2f0ee8d7f93accd047", TRUE, "42a1268c9fcc4371", "fd304a42", "798182e13934049b7fc94c51139df5f6" >>,
    << 80050, "1fc5367af0012e3084792fd5d6153cde", TRUE, "21e16f7e0ec217b8", "433ef762", "177a91044586fa137076b7c0f5c211c7" >>,
    << 80138, "fb4cda906c913f3072a241afe25d39cd", TRUE, "14180408a34b84f4", "2139ff49", "68dea4cd0a040dc3512ce14f4bd204c4" >>,
    << 80228, "6b6930ba0d66a8b9cee33cecb213b230", TRUE, "3aa2bdf1142e8f04", "ea767604", "6d667832f3490afa730d8a81778b4240" >>,
    << 80248, "ca4065daa2bed3d84d256f22d3573092", FALSE, "58355c97b722e446", "88184dcb", "5d5af6d77ab570b2e285b27bda4d3a89" >>,
    << 80530, "cef54a99f8e7e3d42a0e9897e281a6af", FALSE, "64f1fedde227c26b", "ae0d0233", "e4bde1fc12114cb3bf611422c0260727" >>,
    << 80659, "cfbf6bd7cbfab50e305babf4c688d7d6", FALSE, "7abad6e4a950a33b", "39d2dcf5", "546a4ac884c0f5cbf77053d784e08a30" >>,
    << 80793, "2ba2b5b3d730b02dab9e9d07b8528597", TRUE, "4f6fa3336d898c48", "5302760f", "f8acca54ad945b5356b35c43018b1f9f" >>,
    << 80812, "9e9e7505e7b6445f96c7e4024fc70211", TRUE, "1c4b8fdce76e2a93", "fdab7ddf", "086c119627f7dc464aab18ca7e2b668a" >>,
    << 80890, "848c90399015ed702456b52c1e7b6065", TRUE, "33ace378d6de63a3", "6ae553a0", "612ab63fe7a0dbcf048cfe234c8fe743" >>,
    << 80990, "5bc561d760f312ced8ca66675597f0da", FALSE, "b320080feacb99f", "9708c505", "b6b57bcb65c5e46fd2c2ec7287d3ff0e" >>,
    << 81088, "1506c242adbbe8033680ef554613d155", FALSE, "2274e631f3a7fe6", "35fb2dc0", "64677d1d8f725725a812d7f0f01bb311" >>,
    << 81090, "a9a8f7d1a4a0608e247eb4eda86b77ca", FALSE, "2cfaaadb82bc0a60", "9497f21e", "c9fc7820d019a4949e6cdc3332adaffd" >>,
    << 81099, "27c658269f8c16d0db24cf35c8e144f0", FALSE, "158b5261961eda6", "4dd53cf0", "4e63748a2cfc6e0ef3c9e94fb66c33a8" >>,
    << 81113, "bf92e501fb82cd99367089de91ae6dae", TRUE, "1764450dab0e2990", "630f7ff9", "b8f4c29f543ca73cc49741fcccdab162" >>,
    << 81133, "f645c5ade4a790e982f844ec2b86423e", FALSE, "a3b27cd3cba31ae", "e668b2c5", "1d5ba2a34bdf4a30e35b59f06b9c3402" >>,
    << 81291, "417f8112cc807dd0b5dd9b0b6fe734c6", TRUE, "a3541543e22ee4", "bed1f5de", "fa2f5976622e41a92c2d6e9d9d70e0bb" >>,
    << 81336, "ae877e131235016c7ea98bb52b227064", TRUE, "7e3c92a7dd91070", "7c495954", "b15107790a3181a0872548bc659a68e4" >>,
    << 81350, "df477f0607a18cb1fec68763fd463c6c", TRUE, "74dc49095134cc27", "313f8a09", "3d97f42a73bdc510e22e1e7ca7eb8052" >>,
    << 81366, "11add8ef49fcb465548275fa112d37d0", TRUE, "25061fbf6b97d08b", "29d1d1e9", "2735c462cb156af3627dd3cd98ccc1d4" >>,
    << 81380, "9443029cc330d69a6ce9aabb71e23d40", FALSE, "6ba36c75068a0746", "1f5d0aa4", "0b69158c22ad3b56400c49e0e5f16af1" >>,
    << 81513, "f0e196f450c926fb368b2a18ae868a47", FALSE, "2f287a0d9187b4a8", "6e424df2", "10bdb77d84ed28fa43126ddfde65220a" >>,
    << 81527, "f786a78c322e36b7286cf4977709a1db", TRUE, "3a15feb95462f4f4", "d9747c33", "732d96724457f8be5adde0018a805d00" >>,
    << 81621, "b5dfbe2c83c68c87495e22ece1dfedce", TRUE, "76d0af6c2bdf4a5d", "3c03bcd2", "9053213888e0947fb7ea29574bec1615" >>,
    << 81682, "b486558dcce9bb15915144cf74dff480", TRUE, "68a72b05bf1e5cd6", "f22cce60", "07b332f80e6a28cb1157c13cfe82a2e7" >>,
    << 81719, "ca0cc6f1e72c052ee2d1866ccd512052", TRUE, "1dd364b80f5e85e9", "b7495f3", "578245dcfaafa369ae4ce91b1c5e43bc" >>,
    << 81802, "cb2208f971a575ae49de0b25a0e9ae56", TRUE, "3e4350e25b09b3be", "74e8619d", "6d93c153d7de1e31d7fcd7fa59a98115" >>,
    << 81832, "1ae3b4ac6e558a6ce707d8c0d1c08930", TRUE, "48c475206c4d527f", "2950bf62", "038485dfca1da521344a199af59382a4" >>,
    << 81845, "dcc3ebb3006286f578ab5cd0ad0e5ef6", TRUE, "5115f9ced0c62d71", "ea929034", "a01c56aa05a28782a10d6ce0adb1e08b" >>,
    << 82065, "3657651fa870bd6a6f7c838632538efb", TRUE, "4d99215fc12abc58", "1f02841", "880bf29c2b1ff48be23feeaf3246186c" >>,
    << 82135, "7d7dd0c756fe3bf1a7deb34dbc52b024", TRUE, "57bc1d131384f42b", "80ab68c1", "3ae5d73769d257efca7797061ba40e6b" >>,
    << 82285, "2cb58c1950900ec186a09c310cf691bb", TRUE, "20a4e4fb716e54e7", "3d81b639", "572885c785dfc4c2cf34df95b132ad42" >>,
    << 82326, "3a71184906c7344878a4c1e61e361a83", TRUE, "68bcb3bf8c5d113c", "8f5b80f5", "3ca5965cc1794c47d7f38822e9b58bc9" >>,
    << 82331, "b248f889f871e79f8665579e8626fb3d", FALSE, "23bcdf67adfdf8fb", "da0e59eb", "95f195954112fe40b7a36c0a3ca70b16" >>,
    << 82355, "8ee31fe24a0d73429f8f6fff62c556ea", TRUE, "10f5feadf48b755e", "c643d381", "4c514938e6c992009fad944e505c985d" >>,
    << 82411, "790d8019a6345173ff7bf7003dc19095", TRUE, "745ba6d06afc4d91", "625848f4", "a23b1655f778433630e2393279079b6a" >>,
    << 82495, "8a8f57962dc97b2eec547df9990d4717", TRUE, "4c378b259534a759", "a7f6bc6b", "750b8deb56703993130d9cd63183ecc2" >>,
    << 82506, "0d8dcb4c795eb311530373159ee45a92", FALSE, "1c8e639999566c0e", "bf912c9a", "f854469ce594075921a84d476c99ac59" >>,
    << 82519, "50b390aba7a2433533d1e8624aae7e00", TRUE, "2b5b5b2fb7b72142", "ac689866", "156b0debc4ebd3816e71412d7510fadc" >>,
    << 82527, "92b3c0d7c9dcaa207354143ca4ec1ee7", FALSE, "7061331fb3e3f053", "37410cf0", "3bbfac0a4826155d3fb4bf76ac9af729" >>,
    << 82590, "acd677db17414e43f0cb7713cfba9edb", TRUE, "129853d733ce440f", "7cc3654b", "3e300f156c115f251ff938b714fef99e" >>,
    << 82639, "fa8c20d5e69d9660ffc2f49f921d56b4", TRUE, "26decd805554de4b", "bc1673b8", "93080d53ad5c815fdeda6886f4eac088" >>,
    << 82703, "1f26d6e3652612af361602e8a30036db", TRUE, "1cc65cc812a65224", "b86eb61a", "1ee9f2764f58c3f6ab567013c4b0a5b5" >>,
    << 82717, "412ea90be194264d037bbcb6702f7050", TRUE, "160644aa4c266ef", "b8377ae1", "0e31c47eea3da862bb49dc8a07cc3429" >>,
    << 82815, "6f0b4dd7fc2c73a2cc89f6fc0ba454ae", TRUE, "104ac71c459517a2", "d05062f1", "76b58079ceb96c16b3d24dd75fe9ca11" >>,
    << 82819, "adadec4191d97c1302078fb39c6a1db2", TRUE, "470e7d5b9aabbb27", "12a62ed0", "ff90ed3e312702e68d23f42b16536587" >>,
    << 82869, "3fcce755207879b0bc9789943c6a91c0", FALSE, "3facdd88cc5f78ea", "a5e3b45a", "2ea23cdf6ff0e96488ae5852bb570c8a" >>,
    << 82883, "33dede04095e1b0430e9b3e1ee90c3f7", FALSE, "3b9d480f19397b4", "97ce0fbc", "a2208b5f6aa1c41d8b6970c9356fa08f" >>,
    << 82977, "bb81ddda28e750ddc2533a9178c6276c", FALSE, "6cefb50b56536271", "192f287e", "df8d6cdfb04397f65d5aeca6b2579816" >>,
    << 82984, "1d2917474ca7b6a01b08a6c59a0e3c9c", FALSE, "1f2d3ff94065c076", "c2c5bb3f", "81b72a4fa37ba1309fe0756526344ebc" >>,
    << 83000, "9217630b39cc80e08e3c5a288f4085a6", TRUE, "7f698ecad667069f", "eacc04c9", "fff816e1917f191e4acbdf7098454027" >>,
    << 83082, "46b69e9bf3d77bc47cf1758833783256", TRUE, "3f02367e786bb3ee", "49e4f02a", "8eb4e5094871d1fad4540c10ae8fa20c" >>,
    << 83220, "491a93e6596170477f729d223ed2f3fb", TRUE, "184881d0ef9b6391", "1fe727f2", "ce908fb65b5a51d97c006c542561c1f5" >>,
    << 83330, "bb5236f30bb7fe86677d67cf0d3e6492", FALSE, "70d9d1c708e30773", "fc7a25ee", "aeb1bad24033ea3bc88c474160e56c0f" >>,
    << 83334, "ea115e90d12bfe0fc30d94347904a5aa", FALSE, "701a9e90508cd75b", "36b35ea0", "46f23e8a5d59f7d12f843b37df851d09" >>,
    << 83363, "9adb6233b8c03c00b3d6c97c36ecdd27", FALSE, "1e007ccbfd7fa469", "ece4a140", "e7b82329776402829b7cea3986c404ab" >>,
    << 83430, "7338b34d4ae81e24f523877745939974", FALSE, "7bd47dfba097e22e", "3fd4ad72", "b6cfbdaeffcc60ab16004ce2b8d32476" >>,
    << 83485, "563da3ccb0f9c3d6a08584a5bd2d81aa", FALSE, "6b9b1c5fcae3239b", "8e14e7fc", "4193291221e6e7f6857f63b7477164b5" >>,
    << 83528, "1d7914abf16cec6f210c9ea5710646c8", TRUE, "6b078f7ebbbde3d", "3a09c2f7", "1651e20cd49578d550c3559294780eea" >>,
    << 83529, "3094f123c2477402423a5183c3a711d2", TRUE, "6dea047cde808c7", "913533bd", "6c8d5c96b8420a07a965a20c6818d1e7" >>,
    << 83575, "deb90624b21a5fa8e4fab659f4727a07", TRUE, "40611189130eac11", "b1dd9f02", "401c6be125a125d04fbce5eeb70fc06d" >>,
    << 83839, "70e0230ed543019b40f16556cf66f146", TRUE, "43be2ece5afea749", "a07627f1", "3755afc17e69f68ff4987bf0dbd6b103" >>,
    << 83932, "22bbeddce81dc9d3c8ef05e5e9ffd8ff", TRUE, "7c56815b4090abc5", "9cadd42f", "63072e284d70eb4d3f5033e49e6bc62a" >>,
    << 84060, "38df74250d6dc5cebbdb823727320239", TRUE, "38ad789d30b79e8d", "cce8cd41", "915ca0be49348f9333d983c8e8b226c5" >>,
    << 84188, "24114c9ef20f7fcba55335cc0974c747", TRUE, "68abbf540f75d600", "db1add6c", "21c5795bbb99103457e45e22ff543714" >>,
    << 84346, "0c8e94c822066c22dfb1a388ad5d2fbd", TRUE, "7f2cc3420b5ec883", "62edeea4", "64b30a5fd28d246e1d9242aa18d84820" >>,
    << 84376, "ad8290a85985feef4c8cfd44a93858b6", TRUE, "bd5d82d5b085373", "26f2af2c", "25659b161a17fa020db60ce73d5b0830" >>,
    << 84396, "8bef76ae90fd5e21cc5c4eab3e9c137f", TRUE, "2469b9c4665a307e", "9ecef956", "73ec85f08d3e376b94b738b588495228" >>,
    << 84430, "88f979ee3f1dc856087876601f5b467c", TRUE, "3857577671e707cf", "67e06f35", "e21f760720a7eca29947a7368b632585" >>,
    << 84460, "0439a86fe660511e460004e8307adce0", TRUE, "5e9c21a9a70c7236", "5076c29f", "a351723b821f6d3328a5e715aa363021" >>,
    << 84551, "ec11dc750d69e9d1f0616776fcccebd4", TRUE, "3b213ed2ca081092", "a7e731ad", "ca02baa7c9e68522ef3a5abb2028130a" >>,
    << 84558, "baa15926c3c2446c194a1d3f546cb668", FALSE, "692a5d7554265b06", "4adb6435", "aad3f25c203a330584dfe465a9eb5760" >>,
    << 84681, "d2f9e8524555b0488cf861f7a957f28d", TRUE, "561c8830b4947564", "3f4655fb", "842f5845be553d999a56bf2cec6e9c28" >>,
    << 84862, "ebca7ce4b8767378ba31a19c73ece482", FALSE, "7a0bed8a35528a37", "efad130", "8b0c87355fde3bbadef4615ef9ab7fed" >>,
    << 85089, "28a211cb51e0c967d2e1e35461d11435", TRUE, "75f1e19ec3db851", "838638e5", "87af1874313f62bdf109b638f6ba2d36" >>,
    << 85240, "d6a204f322571215a65d176af7155116", FALSE, "308212cfe5021593", "f556efe5", "461dee4d57e473881a1b5a66e5237472" >>,
    << 85244, "f86672c62b7014e02ecb2e588fe2aa40", FALSE, "545029f0336a22a5", "7eed5ebc", "1342ffa8ed2941baf8805c88e1d69c95" >>,
    << 85279, "49b62d8495fdc15aca2630f6de31f2eb", FALSE, "219d51576563e450", "dafbacc9", "84f82ddf4a4cb26a4ef4c48dd347d418" >>,
    << 85469, "707de0766c795b5a1f8510dc33fbdeb9", FALSE, "6a57e4613a6ecc77", "7a70ddfa", "a8396eed647c4f90cd1aa5bd95bed806" >>,
    << 85488, "1a8a86bf095d754d005bf81a8b49c1f7", FALSE, "28c4e5d5268e6c", "42c3eb6f", "c29b6d78aeb045432f3da8b72a4c3005" >>,
    << 85611, "0518d0a0acc8fa0f534028f9e0eb6962", FALSE, "5506a34316cd96d1", "624ba98b", "7afa0c3b9d35f55a34f448043e13af6d" >>,
    << 85680, "542d1ee89d7c5e82bbd8e37ea209acab", TRUE, "4f23e94cd0147aaf", "97821e10", "cebe175e203fbd73eab5774bb6abd39a" >>,
    << 86040, "bd0cc60ed208be51e9109a8100faa2e2", TRUE, "463017c4c5f3e1b1", "7fc6fb35", "f227c2c2e59fa763b835a38839a3e4fe" >>,
    << 86062, "532bd6fb8287d264dbdb48ba9faea88a", TRUE, "3cecbeee972179d6", "cd04c202", "82a774494946b1a571f1c5521fa83992" >>,
    << 86099, "122c5e6aaa5b9cd30f44f39a3bba24c1", FALSE, "58eb094c362e5ede", "dd284935", "ced9479e5d27ef5d24df5c905a7efce7" >>,
    << 86126, "e3959d82bacf783861b6d74011ba97fb", FALSE, "6bd1bf86d78ab4b5", "afe1d379", "2d9d6dd047824293da52c49cea6af1b6" >>,
    << 86320, "e1d989c7298285ced6cd1f2cdb7783ed", TRUE, "528e5ffdfa7af0ad", "9a1207e2", "67636a36bb4c68b2ca5dfc3dd1e862ce" >>,
    << 86480, "70418c46f46be64743626721c4170581", FALSE, "6cff4a9231e718fe", "adf8ba74", "785428cc0c60e6cf29c956a67eaef443" >>,
    << 86507, "50ae6c5a890804912cfb85a61bbd087b", FALSE, "3655839746c6772e", "f3626e8f", "2bf90a14d33f631f579672b36f6be0d6" >>,
    << 86532, "dcddc489bdcbafd2b3064d713e7bc88d", FALSE, "2663d6b83cee3804", "6dba45b5", "4798c221d56d7625f7206827caa5ee05" >>,
    << 86609, "6358029e6b7b8549ed3316864710d876", TRUE, "70a343c777d5844d", "1e71e444", "02ec35c123d0acb31b2a2fb1168a937e" >>,
    << 86614, "eec58333b97bb54e21ba6ab83c0f7c60", TRUE, "3efbf34502a7256", "647f97d5", "6957863f6beb35997ff6f8267d74cd48" >>,
    << 86684, "4d96745baa3ddb623137285422c626f8", TRUE, "777574b3a1dde4c8", "e7e9aa38", "e1d0a6a6758e8a2d6cbc0521371beee6" >>,
    << 86832, "606caba086292c1f12cad520dc50f418", FALSE, "6152847607d54aa1", "713ca48c", "959b1f62c28d25a13087454d44e27e7c" >>,
    << 86992, "dcb39527a6fa77c170b3dd724c76e4a2", TRUE, "18731dccfcb9cc1d", "2cc5f437", "ec653ef07d544e4245417417c21ea21e" >>,
    << 87056, "4231d834bd9420d744bd75d80429029b", FALSE, "6b5528a2646507c7", "c1751b1a", "2b4c66f735ebeb2ffb3bd4163781b4a6" >>,
    << 87133, "91a43f3d185943656c777b5368c8150c", TRUE, "2b1bb4141a0b3b1c", "1ef02c02", "77c0dd8126f904beb5daaa2cb7c0dcd7" >>,
    << 87208, "7d3a53d5cdc0ebf9e3fed8d4a0bfcf62", FALSE, "1400c49b52eafbb6", "9ac2bcd4", "655b8733e89782b589cc09e3f8624b27" >>,
    << 87251, "c656f1952089e7e599f5f6d0f4050ba7", TRUE, "1445ea21a33b2312", "9c92c515", "af6941a5e24624350541ac03c1dbc9a9" >>,
    << 87359, "c4bd583f7f60972ee074e26b4eed914a", FALSE, "6f18d95cae10fe9", "65807252", "918ba2350cfa4f0ec9b1b5ab2af3b102" >>,
    << 87439, "7e0a1edaf95d596eb22495d6f97f8a4e", FALSE, "41fdc499f1664ca8", "fdd647af", "6b0b5600d041cd04d93b4a8b8f1b44b9" >>,
    << 87489, "eac004835fcb2c93a000aa7e890f54d8", TRUE, "7438252231c85c5", "1eb03b06", "0b25a0704b78e409b459dca8f349c584" >>,
    << 87549, "61cf42e93f4da40fb380a2a9c704fa34", FALSE, "3fccc78dd0f15161", "aaecb2b6", "b488dbc4120f45891c30f6f7635633bb" >>,
    << 87779, "4b01a8e560e3dd26905b6966ff22ce64", FALSE, "4af1b5dcfad266fa", "e985f17", "9e6f0c5e41ec4a18224a05c76dcfe906" >>,
    << 87791, "a6f4fcb856b89c7c46906d3068315a60", TRUE, "17d0046886eec3e7", "aa831e06", "007cdd8931702a3f3902190fff28d547" >>,
    << 87816, "5191f30e697ab94536cefbff20d93dbd", FALSE, "2bfe93251e89b3af", "d25f26be", "786369e22b88662226a7795892a1a735" >>,
    << 87944, "78b70acaa2120f06780f27f4cfa80bac", FALSE, "7a5861c041d78444", "1ab9aac3", "768e7f26500378389a908025552bc7ce" >>,
    << 87971, "df5394753fd288296fe8c8928e83da7d", FALSE, "45de2695e17d902a", "9f4ab391", "1326922d1059da95618c35ade5922564" >>,
    << 87987, "44b5259b34fccb2fb541d72395bcaeba", TRUE, "6dbc7e902e53c60d", "a0774c7a", "ba1c651fb775055df0c127e4aeab66a3" >>,
    << 88064, "e74235692bda3236810443e3e589209c", TRUE, "7ff4092a3d754bbc", "18b8a9a3", "f5ebb7f5b967eb1c096f3c2a450299e2" >>,
    << 88069, "893dafd8cba4d2155eeeb4c0da25b95b", FALSE, "58c89b1e8f3e3466", "473d085b", "f911640b3a057e1d14b3923150a41fab" >>,
    << 88083, "7e0d86dcb8887ef509eb43c405376a46", TRUE, "5c949b80216b4e54", "544f8285", "e5dd90618400e02fc599012d2a1e0f2c" >>,
    << 88197, "9aeaff59088b6510a4dcc9b35765ac0c", TRUE, "44b0f4333fd0807a", "983934cb", "78a0c50495ca0e9c3541d2f8b56c50b6" >>,
    << 88337, "584f3f29b09582603bf3fbe0e504f15d", FALSE, "28f12edccf9a0c38", "18afa0ba", "99e035aee41bf24dea66b1f0a9886854" >>,
    << 88392, "ed46baa05dd24773afbf15762e425945", TRUE, "799519a0fce06d7", "5b665c2d", "e2704eb396de25afc13f00207433def1" >>,
    << 88405, "8c6b7cb1d9b6502f30ed5dcadf884c31", TRUE, "6e167b51d1612738", "fb86f014", "da2509796194e61084e194e6cc0de165" >>,
    << 88432, "61157f971793adf1730137ef60fff449", FALSE, "4f57ed9e8061b126", "8fcbb587", "4143ddf7962bfce9ce777a85cc04f879" >>,
    << 88499, "3ad264bf289036fee8b12c4e0dc6f512", FALSE, "5b501a00e847a9c9", "c9af3748", "b3201dbbc9a9506bd79216d7a2465d42" >>,
    << 88564, "5eb370269736497a4ef58d17e7c15bbc", FALSE, "76a29382b5ec56fd", "8d72c66", "261547aa5556c6062a1066bf36babedd" >>,
    << 88645, "3724a3c2887fb6060e2af6811ec3dde4", TRUE, "39f7435022195ba2", "d0f52771", "204d6c91ae471cd16692f92797a261d1" >>,
    << 88711, "b3d96ee70490be14a8219e0b3e8fa4c5", TRUE, "307fca9362b3b623", "e78e0200", "d59a519514dd0798de7c15af6acfdccb" >>,
    << 88842, "51d4586578d4076f1a2dece48e8b2ef6", TRUE, "4116b4fc9290dd68", "416f31e1", "febb034a7e30b435dc706d64357cbccb" >>,
    << 88874, "a76a8c08cdbf17b500979f0533491854", TRUE, "45676ed1e5c44950", "4658ce9a", "10470fba0bd7fb1326a7e397f18f475b" >>,
    << 88997, "725fbb328d7de600c6cb506dd95a5924", FALSE, "7b9c817627f586d7", "6dde0a50", "560b0398fb0f8e63991f02ea7c7b3b3d" >>,
    << 89016, "e14b87450a33040ed9cc79d63cdb5092", TRUE, "591a05eb6cbf7d3e", "d581a953", "f432168573f7110f7eda7fa1a6211d5c" >>,
    << 89067, "f6e3fea4d737061e6823ab63db497e08", TRUE, "7189fb742b78e433", "7a0094dd", "7fbbc5138d5d30e5c8826b2835ce4b70" >>,
    << 89133, "942d72fb99309062a9c008b6ae1a8769", FALSE, "5b65edc2139a1ad3", "385c92ff", "cec01c1be4ebcb1fbd73617882452136" >>,
    << 89239, "00c0c21be3ac9ed7af3d10eb2a5a4899", FALSE, "2e0a6667b0ee35a", "e9f3a98f", "000c1474afe711620462c9ff6b2c1404" >>,
    << 89286, "7e638df766e105b837776b86dd792d6a", TRUE, "766cd4a380e9649e", "eb561ec4", "f16c844a3ccbde778bcafb88cf1e144c" >>,
    << 89346, "d7053ae5c2257f2ab524649085a5f2d5", TRUE, "6f1916ed38cdbf81", "fa2da470", "8e22129d66a166b0144deadc94358883" >>,
    << 89493, "55b1c1f218d5a08f146bd6ee20ce57cf", TRUE, "a082e047c9d1652", "b0f8ceda", "32bf07142094c2eea3d66bf509d9fb24" >>,
    << 89522, "e4f774df1da301251fe5198c1631f47c", FALSE, "57672b3046f3311b", "70561ed1", "c447e6bc0b0426d64f5b40bdc781ecb9" >>,
    << 89615, "45423e125d9443e9cb6dd7c85180f19f", FALSE, "76db985898e87be", "f40d225c", "1e6a8fb1fecdbcba6f341ff9d7136c56" >>,
    << 89665, "ac2b0d139f3ca8d51d41ab6092c5f9f1", FALSE, "3081deb7f279a31", "277abc", "21f9be6013bed76e8c20857e8448f16f" >>,
    << 89980, "751b87bf4b4b6aa9df6ac7ef31447efc", TRUE, "11908c9f5bd53fb", "b0b2686a", "f4223758a47a73a0bb13ac704cafd178" >>,
    << 90130, "93cc0284e51ea0c04cb1d8579337c281", TRUE, "1da7e821ae09da65", "346116f3", "a13b8c283d10a53d4e7e4f9df03ca96f" >>,
    << 90180, "476c395ea3e51f85866fe8985065e0ed", TRUE, "3f6d552e9c93b606", "a1d76eb1", "71af1331177a9d482fd2107b09d31aed" >>,
    << 90199, "12b31b227079870594b0ad34f9e43dd8", TRUE, "3999f65c436f45b1", "6113735e", "45c48123148c35f722490808ea00fdf1" >>,
    << 90251, "fde180ce9774a938491a5b8c41efd2e3", FALSE, "292ddc4a2e6d4840", "deaf3e2d", "6a126b1349106e2ccd47a7f9abbb8eff" >>,
    << 90262, "977e6dff334c05d6b355a4e43af144d2", TRUE, "1182e2a52a7e5854", "23b798a1", "c94fee779da24485525889333d8796d9" >>,
    << 90423, "253f561479edb2f87fdf3bab3f9b1545", TRUE, "23dcdfa449bcc49d", "f48921a6", "61c07ef9d8cf254b2efd406be9bca215" >>,
    << 90871, "4f95fc0891973ecc91d4e41495a29f7e", FALSE, "3f76b890b2caf042", "507adf46", "90dc49ca8be4f49130b0741aea6183af" >>,
    << 90941, "0ab5d04f3b617a6d0eb06f45c7686f01", FALSE, "2a23cbc9f3545de2", "638c2bd7", "e7690cc94424157b93751125f2204460" >>,
    << 90965, "bc69e8238cef4936fa7e0716e0e870e5", TRUE, "1d61ca13d1568166", "3d33e1fb", "7cee53040177acf505c8d9f6b073eef9" >>,
    << 91151, "b3c0db01a6cfcdae5e881bb27e8faa45", TRUE, "7a33ddd884122c12", "13de58f8", "a721a4ce54506981830f5fc1736c6716" >>,
    << 91159, "8357cc4edfe521e6759e6fd78d71984d", FALSE, "f49cb61f3b0b32", "a5c60f0e", "5bcd0206f097c5917d17734f00d0237a" >>,
    << 91231, "1922f4304357ddb2d7db851d67fbcbbb", FALSE, "5ed8a051568101c", "796ed942", "2fae2f97d84322657ef19188ef49619c" >>,
    << 91327, "5f75681e2ff898b839cf74580598053e", FALSE, "11710057a3b9cb0", "bc9f02a", "906aa8ebc92536ed6b6542e8841773ed" >>,
    << 91364, "9e994ab5a47bc4abc3dbe56fde11798d", TRUE, "a7acc1b6b52d733", "2584db14", "98ab9404811b688f2133fda926d29d84" >>,
    << 91741, "abb28dcb303ee67f8cdc0652381bbf13", FALSE, "4a0256ab94c1c27", "b3130810", "0cf643feebf68e9867b2716cf431e69b" >>,
    << 91909, "a003ca282f67000c4016f294cdcb012d", FALSE, "7fa56df21b234617", "9c80e54", "58da22fc1b05a992724448e6ecd9d533" >>,
    << 92046, "110cbf09c969d457fabaf66e997f783d", TRUE, "4dc97c1cdfc4c072", "8ac1a638", "b2e186af55d1212744c9905fe1d8f626" >>,
    << 92103, "69b03811e8e49f75473f4c904aba9e8c", FALSE, "1d8f3bab7853b943", "61f22f7", "ddb1670ce855dc9d04bae56eec1c938e" >>,
    << 92217, "124a885c90e877ddb49f7b9825fb6474", TRUE, "7b106de78d6b4cb8", "66a595ee", "47c69d78d394cfcffa900c191c7f040d" >>,
    << 92250, "8c193c84e9f39b170b57c3d2d8f95df2", FALSE, "3a7005dfb9412cb5", "d91db491", "ec571e429fe89f80f00898a9ee102a98" >>,
    << 92367, "e6f9d8043d31bb7f479ebe94c4ffd6ea", FALSE, "3e91f86a8075f6d1", "730882e1", "2bf88611b13aeadc76cbafc192bdf09d" >>,
    << 92501, "a57103c691680ca652e369894f13cac6", TRUE, "27d21f792bdf0335", "bb374521", "93d1bebc6b581cdd8f9d158a36378492" >>,
    << 92797, "c82f075dad19b0814ba339d79c4f54be", FALSE, "3cffadf79c275516", "e868ce78", "75d0ef0578d79286b4d0b93c3c7597a6" >>,
    << 92824, "4de0c34ed7d7bc1241677d680e626c99", TRUE, "de2015f72031d6", "6c92f713", "f38cf95239ad209bd0eabbb1cc33a763" >>,
    << 93000, "bf5ff80fdbfd3a8132a28131a0d54669", TRUE, "1eae006b87aed735", "5578ca19", "857fa759590355c7f4f2fcdf8e4e7c6e" >>,
    << 93050, "172f6903502ddd2097409bdc862785b3", FALSE, "7d93602dd8144769", "47102180", "1556f4340db553ee58c2e1145ebfabae" >>,
    << 93067, "1deace0c8f184fec224da7167a94666c", FALSE, "35edc4d853e52776", "a6978eb8", "e655731eb7b60f72ff0c18c932c0488e" >>,
    << 93249, "b91f93e3a4814b7d54b50655032c1544", TRUE, "a7b161ecde29372", "c235c3c6", "01bc2be609c33b635b660c50d10e70ca" >>,
    << 93383, "c039f556c4758ca6ba39fb4928cc9391", FALSE, "23deeeffca11e5d9", "f0324ad1", "d9b4ec336ad767fae93296fbb8da1fd3" >>,
    << 93422, "a13b0be32ebf004137445c8854325496", FALSE, "506935596ae180d1", "465dc89b", "150706972f41d2fd19341bdd6532d22f" >>,
    << 93521, "ee4ebcc5f807600c8d6fc9e72d078d71", TRUE, "14d6cbb79d65f790", "95ba2c6a", "c75e615c06d31798ee258d7f127d4889" >>,
    << 93532, "f31c3bac455c386ce45b95674887517c", TRUE, "354720f25d941666", "965195b", "27075c2f032f11ef6ca05ab80482d53a" >>,
    << 93873, "b77d9137cf52aaddc31bab1a14d0955a", TRUE, "21b6ffd65b4d3b41", "6d4809de", "9ff945f25d945f425c6ac7bd29392f2b" >>,
    << 93877, "71747f15a726c958bfe5ae8c795626dc", FALSE, "601514c1d9249e94", "109ba4c4", "b88c9e841a20db03992f2b8033af2d83" >>,
    << 94135, "d42abaa14816959daaaa547baa9a7a24", TRUE, "689d111641a4a17b", "28059dd5", "7b2aa66ae26232f5ff9caaef99de2ed1" >>,
    << 94208, "95f6f193e119ce99f7694cdd48704d52", TRUE, "16fe89eb274dbf19", "e210b459", "83c1bc29af6a461cf8dad8c2746767a8" >>,
    << 94349, "db4b04affe21c490ac2e6c081f07e719", TRUE, "6d7327383d0701c4", "c7d37fbe", "9814eee022f6acbabf9cad5e79daf156" >>,
    << 94638, "6ba2d4bbae9c36762b935a71f3efe4a2", TRUE, "95bc6ea517e4d7f", "badb1fef", "6e23d6c4b5f0709bfe2ec69d472348c9" >>,
    << 94738, "91cb432943608540f302a58dae33bbf4", TRUE, "502897115b5776f1", "3fd2a01e", "65576c03bf45df96f8920df9dd0a5f0a" >>,
    << 94899, "c20e6cac5ee05f0fc3d054b61a540fe3", FALSE, "6fa84d3c73d74d4c", "97da609f", "42f8ef9ff7aa6504b1cda4dcf27b52ea" >>,
    << 94942, "4c465e5a55d9b32ba40de43d62f32b06", TRUE, "5c34629e3132de4a", "a258e64a", "e8e6119459e64dc74d9c55be43887651" >>,
    << 94972, "7a6e9725e04110e2974df69d5c1b82a3", TRUE, "5867a1c5ca4594de", "62f3fde1", "2aa4bddd9f4a3afc51ea57caa70818f1" >>,
    << 95546, "10606f8f25ca1f893f681bc14447d890", TRUE, "cf24c20abc4059b", "720b2e2f", "3c86943c5eec3dc892d4d0e83bf5f2b5" >>,
    << 95732, "36a91c6e44b268a83e5a51e0dde29385", FALSE, "49f99a0725c1a94b", "5b764f8d", "50ecc18327289bb5ed8b8c0a2fbb61e0" >>,
    << 95936, "a6b8c61a725ae2714396469237269360", FALSE, "6390424dd8f408c7", "26b06cca", "376cf62fac6f30be92eaf50c37e1ab95" >>,
    << 96312, "21c810bd1ea7c3f05f11f5f86a1cd1d8", TRUE, "673f6db7528a962", "dfe8dbfe", "480f59b53be7c01725e58028d130f741" >>,
    << 96351, "819cd544d584b5369c3520d3c585a41f", TRUE, "6a7b06b61100973e", "803f37a6", "05d3f48c61d12ab6eb173a5c3d541d8d" >>,
    << 96369, "59132b7f429b4327a95c34b578255eab", FALSE, "16f7a2d43223bd93", "f2045843", "603a0c5d0bfc1e0a15180715a3f5b858" >>,
    << 96380, "bda50e8ed10c4e5f21506852754476dc", TRUE, "39afe5705c9fc1b8", "65645b7c", "16ee14501de6b223b851ca2080ac348b" >>,
    << 96390, "21f7182f1e9074eef278c7d2f563cf71", FALSE, "2dba9f403c8c0d93", "ecd99f24", "46655966565e9adb2bdf8a60135d2f9f" >>,
    << 96514, "64c0a7513c52147f15cd570de3f3f48c", FALSE, "593044359b4e6561", "682c3a91", "bb93f0be801ab4a7d9f6341dd5a4ed3c" >>,
    << 96573, "c62f1e5b8e83fbfcbd0bdd72772cbc49", TRUE, "64cc0867410da392", "5b2dfae9", "629908c5dadf2fe434a38ac0b4870546" >>,
    << 96835, "4236cb776fa92a5e6084d326fd4349c6", FALSE, "4bd79bc812cf8013", "1ed444e1", "194d047529cfc9af016dc505e1940e4a" >>,
    << 96837, "c4936989684db63090b691be3a82f532", FALSE, "6377ed947ff12098", "f016ed03", "34bf6410233bde32e7a9f81b50fddd63" >>,
    << 96906, "8a6c1dd6fb077260c6375ef7c4f4bd89", TRUE, "79bc33782d10d897", "ac5d793a", "9ffb9641b81eaee16a083d8352504e13" >>,
    << 96979, "17baa0a31b7b80eb20e7045d54be171f", FALSE, "7d607201ae58106f", "468934ec", "0c5aa7728e248bb6567d241b09363219" >>,
    << 97373, "4621cffdf7e48bd31f4a1c6a8c30a4d4", FALSE, "7b798a2891969ab2", "5df2b398", "c54b196e36159b2523b0fcbd159471b2" >>,
    << 97501, "b5ead8a4602508e0662e9634f85b1c3c", TRUE, "66bf13e0feb199d7", "654ef23e", "ccc76a296d1cc1025435b1c1d1138f35" >>,
    << 97970, "dc149f6884b4f7c9a228da5116d841c2", TRUE, "3efd741d1b404bdc", "585ab31b", "2532edf88a7637a637f2bd69e07c72bf" >>,
    << 98211, "cfe9dce13c27adf4c34274c277a44a54", TRUE, "3a85f6fbdb309db5", "19b8e418", "2e192e6b5c865301c58ab953b7923327" >>,
    << 98330, "a711f497d211e6f03a02a303f0562b68", FALSE, "2bcfdc18104e000e", "d5716da5", "b85ae63a3c41fe83d94d9b946d7e6da0" >>,
    << 98844, "bdc9e997892653cd713b4eb1ec9cf199", TRUE, "2c90003858773fb3", "5e0c7931", "3990e8af03c5e36e1f56874cf72343ef" >>,
    << 98912, "60b25c45e4a9108ca37ae2002418bd7d", FALSE, "79f85610ef8f5e91", "a6b1b716", "b274b9fd98eccd07bd97033f26baf32b" >>,
    << 98930, "c52c42017a0d20af75ab72991e527f7e", TRUE, "20772a282bdb307e", "693c8582", "3ed2724e6f4863fff9bb61167f73e0e6" >>,
    << 99105, "c7e373d0b36e4b4b6cec6cbc3c746133", TRUE, "fbb1f161ed87145", "12912205", "4c5dc57adedf197bdbb7725ecb1be97f" >>,
    << 99182, "9f1b14757c3727cc35cae99939fed14e", FALSE, "6bbf0646e64e23a1", "556aa459", "35fe3a03fbdb0de04e3ccc884c64d733" >>,
    << 99414, "9a8c8efef09e1141ee82a13b666ed11c", TRUE, "353032f3f6844c32", "4ddea70d", "0908c625e85689be510e7f8ba6e232e2" >>,
    << 99513, "b6c277575ee7c7e45ac59ba13a520cf7", FALSE, "5c80dcbfcdd9bcad", "3046ccb7", "e407817436c3f33cd1ced09cd0e7f399" >>,
    << 99738, "fa64a5e50d852f1a5569928b85bfccf8", FALSE, "1f3fd1c5064b607f", "3176aef8", "526636d1f30689051dc5ccb7e8925191" >>,
    << 99769, "614c058517861c372bef2ec6449128c0", FALSE, "208d064254da3003", "4a93420d", "6a7c42b9cddfd81dfaddf7c52ad9cd86" >>,
    << 99866, "061639a50e6c773c3c4f5c3935347da0", FALSE, "615bacfec0e13dfe", "bc312f6a", "7ed95be49f6ca12f0b1e4acd23c1e870" >>,
    << 99882, "ac39c3fadb65646da73237078f2b5985", FALSE, "165dd8755ecae5c3", "4f444482", "416b47364f0c011ab755d9f11447119c" >>,
    << 99958, "ca7b818be76f6e731ea0ad72dd702a21", TRUE, "2834da8fd872915a", "a29305e3", "4f4afcf345e52201f1c55de449d5087e" >>,
    << 100532, "5b6b74a828a6f75d5520be41c0facb97", TRUE, "2d2125f57f07834e", "3dfed858", "913bf0faad6dd5f6a54723195307b6ee" >>,
    << 100550, "a25082f75fc5f012341146aa5a276e68", TRUE, "198be0895a181c49", "32cd5ea", "7adad00a89a384e4b0b56efb32e38c8d" >>,
    << 100725, "5638a17578cf7aa329df0270a8b84c1a", FALSE, "df4df3eabc20273", "51ffa089", "e1c2979caeab4636db091604684d1211" >>,
    << 100750, "4030f7086fd6a16c4d4f10a2ca00ccc7", TRUE, "835a6043f7e64b2", "2914446f", "0d32259db1a3ffa57dc8266c5174080d" >>,
    << 100901, "356a8ca4bd2a0c20958a21e562a3519b", FALSE, "2e9ec7899b89888c", "a3b6f66d", "6b4b2c8335277322bc847a0309b6a701" >>,
    << 100916, "052dd891fedef4682c360b053c6409f1", FALSE, "2fa7465b8033f24b", "959308f", "3f32550fa62c08f02a620b9e4aba99db" >>,
    << 101065, "b89d7efe0b453e0f63c7a8ff47605f30", TRUE, "6500d2979edf31b8", "ec66154b", "d7bc68789704c68b603f89f600c6b710" >>,
    << 101073, "7926fdd080b46b2ceba19a7249f63bba", FALSE, "245a2ecdd7ee9566", "da68e22c", "a4ea7b859e5ac0b70e0cb92f10082a9e" >>,
    << 101181, "6e0a441dfb40cab08e27ed2303fa379d", FALSE, "16a57f20ea8abab1", "e5cb479e", "778ae1a299ed4e647f58cb7375224b8a" >>,
    << 101367, "de16eff0ab12b6b964db4245732058ef", FALSE, "52f2f42fc69c09fe", "2ac71ead", "890fd0acbe97a59fede8b5dede13707a" >>,
    << 101578, "21868d9f12750dc3b1a270422047aec6", TRUE, "5d4e402ccdd3bfe4", "5d4b79b4", "21aa0bb4492ae082da173315816d18b4" >>,
    << 101878, "4a7331e693b606a7c9fd683c7895513c", FALSE, "12273db2611c981e", "2edf78b5", "19c8a6a3d928ef07119d9c6d0fd3df2f" >>,
    << 102051, "63720107307cf38dab8c43b1d9e771ea", TRUE, "58b69b4d13800676", "59fdbc27", "48191d9ba863a2d85761a71a71f2e70c" >>,
    << 102090, "eba2d68fb68f18b661ddda17ce7b6c2f", TRUE, "78e962510f395dab", "116e36ad", "e0b00672140bc2f3592f7bc03ad8d2c7" >>,
    << 102126, "5e7cf19e8a3904f57a9a32608cd06e0d", FALSE, "686edd0ec5fc25ae", "d09ecf31", "7ebc14a1208e98f0a8043f8bc07ae03b" >>,
    << 102242, "f9a8fc204f398d318d2749243f99ef14", TRUE, "173743fe5727c827", "defa001", "4018315a67bc5318c25da055d9c1ed85" >>,
    << 102715, "7e197e155b13418d098057c759d8aa27", TRUE, "1d808b210803aff8", "d183909b", "26b8e5f68a557c0d8fab7cd4053ed3b6" >>,
    << 102766, "c6ab14b06db47c7d4e0914cf1c850cb1", FALSE, "1c615ccd0c4e284b", "fd5370e7", "22108e989f4d831759736a21a7f425e4" >>,
    << 103069, "7bfdfc4fb04badbc2b967bcd58921135", FALSE, "6c34d73e013ad8b2", "349c7309", "a851f8bb1e14cbed446605b064e122c5" >>,
    << 103073, "e0e68a2653a4e244cbca636293892efd", TRUE, "6df5bfdf90424c0a", "5a435b9f", "7004a2debd8fe956e63bb5827fb637a6" >>,
    << 103319, "3a1c598789f9530bf4ddb72f8da7b1f5", FALSE, "34caf97268be7722", "76bb67ca", "0d956fade53edb2b26f47ed867bf6a94" >>,
    << 103332, "42adbe540ac150b4b567a926aef9171b", FALSE, "6fc6d888e79fdff8", "9d8e82bf", "f4a33b7f32c342080018287f85ff5c18" >>,
    << 103383, "bdd5838fec0bbfb0ab9394b7191f7217", TRUE, "3a0f85e21888571c", "4f767f66", "343cb297d47e5a4331c7874785861646" >>,
    << 103548, "46d20128d18d356daba8c6de6f8084ff", TRUE, "1e28346d03d80f76", "f12e88a", "e4bc0caef93348e063af69c86eb4f2fb" >>,
    << 103789, "0470ada4d5b89f03426e7f3c479871a3", TRUE, "5d3ae297c653f3bb", "3bfffdda", "1bfefb38fe35e57988cefc68e1ddc62c" >>,
    << 103814, "8c4d51211bb5498039556ce2fd8a9786", TRUE, "5f4711ec920e4479", "444f46e4", "0c4ac0af89f94b3c33349dc1bc79b089" >>,
    << 104402, "196c8f1bce5acde0e4e1cc7d9229bde3", TRUE, "60f66e3fc05222ae", "fffe4a05", "817abbdc1f334192439d694617a5d1ab" >>,
    << 104564, "5f021b417b75f71f697d81f4a5407c64", FALSE, "4e85fc984cee1d2f", "114f4357", "da38b5c16c6fbb4bd44bef43b99a7f21" >>,
    << 104971, "8998bdf6aa06cf285906ab5285ef25ef", TRUE, "72c066806b442519", "52281d17", "4f29e5904bfa3ccb572d1efcd580d8c5" >>,
    << 105025, "c10f2af9273d08609feabb292247c896", FALSE, "c3c249d1039cd11", "a8a0e222", "78a8bb82e1d44e5c154a50ca6ab10a95" >>,
    << 105058, "9d3e7c34b1c5cb9a240d02f4141fd364", FALSE, "12b9f1747ab96331", "9af1db3", "89e37e60cbcd695fe08e364ef8af01c5" >>,
    << 105933, "5526f81378ffc768c87364c5de57e139", FALSE, "5c029da9405a6860", "373a845d", "5e53ff56b5c683933f2dc7a7091a1234" >>,
    << 106131, "2a267fee6b7b5b6a7645f1a1273bec6f", TRUE, "41c77f3fdc719ba8", "40c25182", "0e08d5e4f53fd8e0bacd39d0a939e0c5" >>,
    << 106696, "74d384149a190abf921ae986dfc1d6a5", FALSE, "1b9114a9858b19a3", "21e3c03e", "6e67a4f60f1d4c8c61d0cd68e5b6540b" >>,
    << 106710, "9e20da8ab8cb39777c81c46ca5b885f9", FALSE, "2baeb221cbd5e032", "c85e33d5", "7af33dac3ed6d0984b584bc1195ed0ef" >>,
    << 106824, "0bcd62453874f209e9e90e41069efa27", FALSE, "12d378d9ec5403a6", "f6c78052", "86bc4f1affa952bf1fcc0deaeb1de4c5" >>,
    << 106838, "81dc35746db21c92d0227abf50e0a35b", FALSE, "c8611cfcd7e85d1", "b0465553", "86ab6e5abff413cc645188557e0fb688" >>,
    << 106949, "caec7012239b9e7f3ab7601855a2c77d", TRUE, "363538e3a147ed3c", "336730f5", "329825f892695b86f7ffa7d91c890be5" >>,
    << 107097, "e4511d6e600626d7a4e9407ea75b648c", TRUE, "36ef080459536dc1", "11dde528", "bc191da3f3de1288ca008cf129de8885" >>,
    << 107485, "1b5eda0f8ff1ef298b20241dc85f47dd", TRUE, "7d6159a80d4bfa51", "a69ce6b8", "acb34cb3a3671191e9d659049003e48c" >>,
    << 107707, "874b61a3098da33fc7b4caa63ea0dfee", TRUE, "44c43f8b9172c183", "61fedce", "78c6c0103ac94ab34ebd85e091b17d38" >>,
    << 107751, "0a7f87eb0fee2ff17bdb50baf5ddd5c1", FALSE, "6886a44865b4ed7b", "7c4ceb51", "6ea2b5d0f0bbaaf7d329af3a3172d6b8" >>,
    << 107983, "cf375b7f520ac54b96de1d7a395213d5", TRUE, "313a824a5cb59be2", "bf34ec5e", "3e00c243dbcfe14212a2286ba7a5c414" >>,
    << 108297, "13f282cc250b3c06501aeae799d5b5d7", FALSE, "6e3e0827dd581d13", "4e7566e7", "df5f50c2a9955782c2622b5df06cf232" >>,
    << 108562, "22e1d83bbce549634ec0379a45a0d667", TRUE, "56af8c22ccaae188", "15f6144b", "8edac0c78879340533adf6ac6bad7b9a" >>,
    << 110102, "8788d1cfd2190acbea87eca4732468c6", FALSE, "26e8dc005fa8e6a", "e66974fb", "dbf014ea34bf0d7cd0c270e313a58047" >>,
    << 110921, "e14f2993c2b47978ebd11066b682c3fb", TRUE, "48c67ee38681042a", "b746eae1", "88fcd3bd593645872a7d65188cd38a47" >>,
    << 110982, "4a543db9e096014252d2ae7a9242feea", FALSE, "369e89cb7940cc13", "90602fde", "42bb3282a17c3b07fbc6f5e47cf9c0d2" >>,
    << 111114, "00cfdb9abd9ba2f604d1fdaec0967ae4", FALSE, "6384443747cdf01d", "b6ba3a12", "39e066680c196953786f1bd9c25298d0" >>,
    << 111162, "e39305afc03803e908e36cb58f01be5a", FALSE, "22c772c504b9e76e", "344c326f", "e60f884e7a68f9a0a138e586f04dbee8" >>,
    << 111259, "155c201ca7e888cb04b816c17b1deb78", FALSE, "77fcc9fd7b1fd231", "2eea8faa", "8ac1487361862ea1f2875d8f162b6942" >>,
    << 111272, "513ecaf313992e9e728b56c71f45d161", TRUE, "41a79e35613eda6f", "d0ceaf16", "b46ea4c3d722da44d23917c6e1a643ba" >>,
    << 111923, "33f16cce08a4756fd27232c44e8bbf02", TRUE, "51be583df3f78f0", "6261993f", "145c11c0a72dd3834719ca4ca12682ce" >>,
    << 112392, "4d41e521006341e79704ca1e5fce3ec8", TRUE, "588aedc3e447d287", "6ae9080c", "d9b95549b50dcf368bbd50fa8f0cef26" >>,
    << 113019, "a7cd3e96acd9f4e4777ad8f0f3ebf425", FALSE, "6d1eb1fbd9851c3a", "a2a68ed0", "0c8f791d374e0cee07d8f9e38dda2285" >>,
    << 113096, "13837618a38fd2726187a75de2b4b07a", TRUE, "59ab0950d47b724f", "9bbfc2c9", "ccf48c878cbc47ddea6d78ec330d76f2" >>,
    << 113217, "07a2ac11dc881440fe00145c81b97cfd", FALSE, "5e6b7a297ba3ddd1", "841bbaa7", "25f62e2de016b922d6d3520053b710c4" >>,
    << 113465, "407565d1d02eebc1ee0cdb53ce7ee96f", FALSE, "6dfc19fac011bf54", "d9c6cb42", "0135f146e5ecf2904699acfb24c92fd7" >>,
    << 113865, "97475fd90a1eeb968c22f0dbda956bbf", FALSE, "5c76e67fe2fbd59", "db6d98af", "034c8d58b943e5da59365c9f84fdb683" >>,
    << 113912, "abab84f83fc8b0548615c1edf7afd1b0", FALSE, "4bd4e58c0dce2488", "f56fd4b9", "92e99bc4a3ad75d59982c1a0c47d3019" >>,
    << 113974, "dd3a0a7eaba5bec6d5d3bd1aa7132c99", TRUE, "1a3de54b55635f63", "f4dbb28d", "bb6fb457ab47af91f37ab7a0040cbd6d" >>,
    << 114085, "3b3e8af05ba3b4e4b266c9bf5c3a5bde", TRUE, "1f53419116cd70f4", "59ed2124", "27ab5427940b58f47332f4ff91b257f3" >>,
    << 114149, "f1f99bf712b803a6098ab460a4abfe0c", FALSE, "52a5a9478b114d3d", "f9dd5438", "90d4782865fe2976336a486adc2dc98d" >>,
    << 115229, "fb4b31f507569b7ad059911e521b7031", TRUE, "64e58a13a6f5b8bd", "b119b128", "3b4b857f41fa901b66f74dac80cf6058" >>,
    << 115934, "ea38604a7ef0beaed01bcc649b5b02fa", TRUE, "7a2dbfcc75968e39", "8a4029bf", "5e6cc29e82b6080053cebadd351ffe0e" >>,
    << 116113, "5827a1bf9ea2a5aada744e1399b8759e", FALSE, "4e7343b63f8ea581", "15f75d64", "d56e94e28db11f06665f1cb5e859cc00" >>,
    << 116114, "7ad411aafd4ee57fced4597c39515e22", FALSE, "7e7afd186d7f85e6", "f9bafffd", "df202bf64faa11c64ff20ca453a39cc1" >>,
    << 116872, "25a845da77e9ec5d10ad40f25df63500", TRUE, "3d10dec16a0d62fb", "ac665913", "e7edf8d83433cfd41cb1bfb543f81cf1" >>,
    << 116942, "3997baeff2042bc114aff6470b3b8ac0", TRUE, "4605927d9fe46303", "ec32fc44", "9ebe67d632a870a87504af08a0d88cd3" >>,
    << 116948, "a2e6e0b0c11205f0996d37ec6b7ed7f3", TRUE, "3494be5442de26a0", "4f6b5e85", "b9de1bb50f17fe950fed04f909dda207" >>,
    << 117425, "1cb9d502e450398c88bfe1b08bb8d53f", FALSE, "1e32de1c3f04ab0c", "b8ff0e8c", "7780c6749e3c3654280a7b300c3044a3" >>,
    << 117442, "25eb1f3ef207341100d81ea973e5039a", TRUE, "1d086d045fff9da5", "9f04183e", "2bd3ea499f17f77bf0da912724552329" >>,
    << 117725, "f87268010b38379e25f51c5d6ab7f9d2", FALSE, "1f5bc16a47a1ee28", "c5a062a8", "56c0fb6b0009ee3e72e0f1b948a49d61" >>,
    << 119361, "8639edfc3eb49438359c497433df0c66", FALSE, "79da93571e4a89c5", "543dc683", "8395cb77ce6f150f3784de06fea50518" >>,
    << 119411, "8fe7b10975d0af1d4c78085939ecf344", FALSE, "7f2c130fd0d9ccc7", "4fb4c879", "8ad5c0bfad81105322f89b61f5862ee9" >>,
    << 119421, "797c6e7e0191ca666c4b4492176b4f97", FALSE, "5c0f6d220f630f34", "699e8d73", "a443c82f24fe27b3642a83b3f0545f82" >>,
    << 119575, "30bc663a2d7271e7d4e175672cbce3d8", TRUE, "233a91909cd70398", "dcd6729d", "ca576b7941b49fae8ff9b88ce83ade12" >>,
    << 119977, "2650ff25c1e843c2f7ad304e03672eae", FALSE, "1663ca907087a934", "5e736ad1", "5c07ed47b9872cf2e2ece25985157d28" >>,
    << 120363, "5fb5312a414008d75832ea93d6f445dc", TRUE, "7cb4b3ac19a20e57", "b53a9889", "b11ab65b3fcb7704cb54dc0e76e00677" >>,
    << 120644, "c61a1f30b120b7990958f7da34d3ae9b", FALSE, "7d0e05b6ff8dbcf7", "43144e76", "bd9c7b5825390013225bf843ec09985e" >>,
    << 120918, "43a4ff0630aa2b09c54b28867a22f076", FALSE, "33a8cc6a2c45c70b", "c1915128", "cb59ee0f380b03280ebece09751067f2" >>,
    << 120962, "1ebfb3e825a1c54b06e2801342da3529", TRUE, "4b37e58f1f3ede5a", "b41e8c2a", "57f182b04d3bff3babdb5efb5390f9cf" >>,
    << 121875, "de6749fac8f4ca42534926586cfbad61", FALSE, "68fd2c7b706c0924", "7006a0c4", "901d31bcc7ece27ca2005c20b0956563" >>,
    << 122037, "cc048d94ec4ebe4dead9ccdb8940d817", FALSE, "38a79a6d61f09262", "3d6b101", "b904740fd951062a1989657d27d0f1ee" >>,
    << 122861, "1c6fa7dfc5f2baa83895e46442b5fb9d", FALSE, "754979686e41fc16", "bef94df7", "9aa7f2330625dc9a8f08ee04c1f87709" >>,
    << 122878, "adfb43a5f3b692fa0f2961247307b5b5", FALSE, "7c9bdc5fdab363c4", "492911b4", "6ec497e8d7759de95b800d735b6f78e8" >>,
    << 123080, "3b8e9a0ba3391e6ccfdd355eda5780ac", TRUE, "4123516dfcfeb684", "adf78ec3", "0472fed0d3f0f307b832e1f5cb028636" >>,
    << 123368, "da456b2daed18a2ec9d726dd7a92a568", FALSE, "75cd861c69d0ce48", "d93bc25", "614320112d2195d62f3ebbcfa6342e02" >>,
    << 123563, "8c094511587a0b3641ecd4d8bc6f4aff", FALSE, "198c5697dc332a79", "740fc9d2", "8f75d118838f42987dbae65b2ff542e8" >>,
    << 123610, "21a74f762813bc16eb9f9a4e006246f9", TRUE, "1bad6e326fa5aec5", "c60058a", "59e35e6348663989b48797e7debd6d17" >>,
    << 123649, "0810d3234156109bda6d805ff4ea42c2", FALSE, "10184e9bf89824d9", "c22ec137", "5c08f96b39a93930e0b9d2699508b17b" >>,
    << 123650, "b639a09dd690250ac072bafbd48f1cc1", FALSE, "49fc52f376a27c1f", "f1920c93", "a5f62bc450b8012e6d3fc33adc72127b" >>,
    << 123672, "4999b33d3e6f61af5b2a5a5500260fb4", TRUE, "319f25aabe9eb3b0", "c3cf7eee", "1e9686edc3972e816bb20b991ad5f413" >>,
    << 123951, "02576cdb7590444da6ebee2235315e65", TRUE, "106f151208c63570", "5c692f63", "f2ea66837d5e2f9ac6d799ec255f1910" >>,
    << 124780, "1ff0d6d441d2b16e2e223d028821dacd", FALSE, "1f84cf2fba39fee7", "2791b05b", "11cec574a8cb92f25743cfc3cb32d20a" >>,
    << 124795, "0fec79d78b0dc6f170a7ab1ea24a220b", TRUE, "71e2f4540037123a", "f69ced55", "2f4fe5c3ac65ec879307179f10d5a7ad" >>,
    << 124808, "692654c40170dcc2252e59586ad38f4c", TRUE, "113bc01ec151ad82", "363ab186", "56559016e2a0315a91dea87fb5a7f679" >>,
    << 125277, "f1dccd2c6d9faccb64a9c5b871b74ed4", TRUE, "4fa39f4da988f340", "7cda7193", "a5b84d7d59e40399106a756a3f74b863" >>,
    << 126451, "afca7a76b6f42dfecc76fe2323840439", FALSE, "65741bd48f199972", "d677e56f", "dbeb50df85e143399ff3c569f1e3ab9d" >>,
    << 126613, "e07b2f07ad6d1588cf37ee5ba6c297d5", FALSE, "4abbefa22d844df3", "f0272dfc", "e6525071b4b5db38546fa232b619863a" >>,
    << 127423, "589fa3e780dd5ef5ffd1366b7ff6918b", TRUE, "7d408f9090314d3f", "bdc4f393", "bb84c5d5798952d6949296f8333d7567" >>,
    << 127731, "e63e9f998aeaa8e9bd717d8abfa6f406", TRUE, "1e1c5dd6a65e69a0", "3ba007dd", "dca0961eda4b6b2e2459b64aea5f0040" >>,
    << 128479, "c51a307d894df5aba24cbc551e50e216", TRUE, "6a17b4dff18391bc", "2d88d67d", "cb77afad0468e6870913c19524d6efd0" >>,
    << 128644, "b0e05df1a3103b3610b1c8cdfad96334", TRUE, "3c7c7b629345354c", "a326c836", "d9a9d2ad70a330b26c7aa860d77c9fdc" >>,
    << 129441, "e4b2a75b0e482d0b526154194f0de79c", FALSE, "d585697a3548ba6", "ed782880", "f0809ec186abbe063fb7549bdba4d780" >>,
    << 130963, "d2ed5baa6588dc9d27c96703cdc9bc8b", FALSE, "6410b66a89de1193", "16ff6d7", "ff9c1287a05b53c90eb0604d653763c4" >>,
    << 131912, "0e101e6dd56793f989402549d6fa6d7d", TRUE, "4b4fe9bfaf02d1fc", "f3c5088e", "216b74ebb529cd5c5a1912c0ce254163" >>,
    << 133077, "e445603f5f91e8a0d5efbb4269b6adbe", TRUE, "3e3fe1888987bcd6", "82d2195", "fbcfee7fa8fae86519db99743991bf1e" >>,
    << 134434, "06f750f70cd17462a03f1b21b2468cce", FALSE, "4514fc0118235429", "c595098c", "9641fba964516995164e0e751c69ed38" >>,
    << 135963, "7ad581c9e407136c5f22ac8461f61631", TRUE, "699fb22fd09b3aed", "a0d9c23b", "4332d60a3df214039ccf3e3168065ad9" >>,
    << 136737, "8f0792cd43d4116befe81256579e81b3", FALSE, "780145c81ec39b66", "6e11a1e", "342693b7577152ac152fc327cc327636" >>,
    << 136779, "017cce4867bc8de091729b261e75381c", TRUE, "4c3ff2bfba35fbf1", "b3148c71", "4b3a6c37c56cb23d6b0b2db7abe40e6c" >>,
    << 137671, "997b66113ac025d9317160dfaa968524", TRUE, "7c39db4507cffd7d", "f9e83ae9", "cdfe1abd62c530b3c7cdbd408260a65c" >>,
    << 137919, "860f3d4213e6ef561c396a7700411865", FALSE, "3d31322e468f4961", "6da7c17d", "c504723df19834c0a6c001d37cbbf450" >>,
    << 138851, "716b8f691fa58dcd54235d30d5499df3", TRUE, "7beb354ba099e329", "56a50f94", "8d441773d885c8d90273331635f727c4" >>,
    << 141202, "4d152ee0a531a5fdaf5d8afc1d4e4064", TRUE, "6b53505878bdbdc5", "b2cb11d", "b259104d64e6e3f68684d7e6aeb6bd51" >>,
    << 142211, "f78bfff6b774d9e4e116e863b99fad13", TRUE, "19db3166365ff26e", "b727e2a5", "e1b30f7d1ad2daf7cfa365d76cab3903" >>,
    << 143090, "d82331cb2fb8b474f06aad3ee36d4039", FALSE, "390b6d0caa04a3ce", "708e278", "36c73223dff45123c7f007eafd51b82b" >>,
    << 143712, "cbffd20931aa6bc7762b82e6ad1f13be", TRUE, "6c8e12b68bdcf67", "ee460a44", "48f4e3885ea6adc6b84261ebdeb4fff8" >>,
    << 143839, "18fe4be1b941ae994f187b20526ebb69", FALSE, "780e0c4070957c3d", "28aaa03a", "234ee8ffada8fa693cc7c07d8fc9b4bf" >>,
    << 144794, "244b789a1a0aa20f16f6a65e54d4b07c", FALSE, "126962831788840b", "914bc896", "9f9071029f752d9fd725bd026bb65c6f" >>,
    << 144899, "60922b46bb9088c104a8efa078a99e07", TRUE, "340a80f6229a42db", "f5266e08", "c1f1e1778a11360d493200a567c62d50" >>,
    << 145133, "03d5f50c5576357843e3a286f47a0fbb", TRUE, "fe06d5c7b90b314", "d41493b9", "df64c4a1d71e8d349a353b83002e7802" >>,
    << 145680, "0cf03f788301259a9300f38961be3a47", FALSE, "77460d3ba755f79c", "f0014f73", "00a60c9f6cc8eb1b1a03800cb7181765" >>,
    << 146576, "397b6ed696eea57c9dc8693682b06c8d", TRUE, "3aec39d3925ffc32", "d70fce4b", "3a2f12c1a1b83f2621c8beaf9eb494d8" >>,
    << 149131, "10779c795cfa6ca0a8edfcf43fc66aef", FALSE, "1b8575942dbe4f56", "342891cf", "683a87bbbd402cb25c7af22e31e6709d" >>,
    << 150809, "b4f73594809a37ecfa47d064e849b374", FALSE, "25bb10dc070490a7", "be39948b", "221a22f5dcd9e74321f3092b15619a13" >>,
    << 151587, "c8ec9d40c2ac03bbb99b211735521372", TRUE, "6f7c6b5819688889", "bcc5281f", "8078a7d83877e3fb739b39de42a110f1" >>,
    << 152068, "afc96a595dc4b58d84ab55647a875656", TRUE, "639a74a0f2019183", "3702c939", "30a847c158fd81f60480382524bbdb43" >>,
    << 152166, "6ed8af143090c16344286d712e7e414d", FALSE, "33ec86d5e831d4ca", "7ca7bd30", "475706bb11befa8bdb0a0e8750d271df" >>,
    << 153901, "aede9708708adf80a6358539a994353c", TRUE, "1bfc04012c079707", "15ba9efd", "24a4abaca75e2dfc5c745586d9967db6" >>,
    << 154424, "b785081d213d2ad2f64eda687b26b7ea", FALSE, "708e47c076f3e437", "acb41722", "3ed39aff4ae43722b0e058c5a9fac528" >>,
    << 155497, "ea350bee26c9edc52b8048f4c3f403df", FALSE, "259aa3330644aa83", "e846d364", "8e98e39960111d0d3ed3e2885ae8abf7" >>,
    << 155994, "560e72b12284550717f1a0dcc74f77a6", FALSE, "7281713a5c82819", "7725a99c", "4cfdbd929bc2b198ee6a4e0a2e6670cb" >>,
    << 156117, "9bf8919bc888b888dc95f68124c82588", TRUE, "5db5280a52664493", "74a492a8", "e7ce8ba231fb9639078e6d05e20cbbcc" >>,
    << 158515, "541ba10ebfafad75a7a4ef6384b4266f", TRUE, "6adb3f57c0e73587", "5c232887", "691471c5f2c48784cb003c832e87dc56" >>,
    << 159022, "45fa76c7cd1a8265193138627f6656db", FALSE, "623255044c7a3bcd", "7c9c8828", "c16369c93f8d6f4e2806e66edc73126c" >>,
    << 162157, "0dff5e8bde2b0c98152b9762e9d836f3", TRUE, "7fc933873d934f4", "bc7d1d55", "030340171645ef9566529ac1349eb7cb" >>,
    << 164875, "71cf4b594f12b201edab9e586fc88d5d", TRUE, "ae89375e0d04d9d", "dd4bb5a2", "5a91363e8ee642002845003a23c4a0e1" >>,
    << 165430, "374a536676303e131ff22eea634c9b15", TRUE, "2c92adfc5e847269", "d3d20e56", "f80801aa9e3bc91fe973d3bdd7707fad" >>,
    << 166731, "b1d98a634ad3b21eedd797833ceee563", TRUE, "319caf25d8439322", "36d64b4b", "273fee0212169f9b1ba7d5f1bdb42a98" >>,
    << 167634, "8a1b0f24677fca5c04f0b5d2dacb295e", FALSE, "5dfa0d85f09d7898", "173d3e3b", "43f980d2d984b26525b6a2381526a8c9" >>,
    << 167668, "37f36a2deeffb4c60c8c813edd56ef0c", TRUE, "205c932a0c4de986", "7da31042", "9d9ce5c63d2c0b05a6eb575685922691" >>,
    << 167691, "aea9de512abc72f906a9dfe3c848caad", TRUE, "140602d4f73fb25e", "c002d72d", "76d62bee4f13c4fe8d6047be93a9bf30" >>,
    << 174361, "f7136887d81867f89ecc91d61a784ef3", TRUE, "41b55651a3690d76", "dd1ca8a", "307a578f04990d338378a655c600faf3" >>,
    << 174486, "24f8e9c138ed1a2346157558af5552f3", TRUE, "548bf59ff9868754", "8ab5c88e", "2cb08c6f5c50ef0ace3bb75bf7247a28" >>,
    << 177252, "64a733ce661ca7bf3ab1b11caaf42ac6", TRUE, "24fa9c820e1580dc", "6679a53", "34e6fdb4be3935a3744ca36d05ef686f" >>,
    << 177400, "b5e1cd8abd779c470614d97ab41e6a62", TRUE, "5e33fd7babca67f3", "afb51011", "52ac77064b40c6d88b520958623ff1da" >>,
    << 179350, "a1fc756cce3ce398725f221eb3eea666", TRUE, "2d9c87bd823aff9c", "cc5321d", "92bb4e88c496ad87ac65581145ae1e64" >>,
    << 181372, "3cd328585fce433f2f8212a4388855c4", TRUE, "22322e22453acb28", "6268d2a1", "e3a9ec76f746519b61d9d4288ed70cfc" >>,
    << 183315, "13fbebfbdf83e9925043c6c97daee820", FALSE, "3ac622ce22edf97e", "2bcd7d7d", "d621bee433e32ad60ef8386d0ee326bc" >>,
    << 184179, "f3bdde1f93427095240fcea15a6cc171", FALSE, "50130e3e82a76e4c", "a6d86bff", "2e0355255836002e24cdad0565d5f060" >>,
    << 184701, "23c6d8a4054d25b972f79f33bb1826fc", TRUE, "1c25313ff890318d", "49583a2f", "a34b330e094aefc37ee3faa94bd7de65" >>,
    << 189353, "0194641b202811aef9ed6769e080b41c", FALSE, "574d98ba7d43576a", "e34371ca", "acd61035d82750df1ee74254207148e0" >>,
    << 192615, "3ab4bfcb6da93bf74d82091187b813a9", TRUE, "49d81e24bdea1d82", "f7bb1418", "7587b02a995efb74cef24d783dc75ac1" >>,
    << 195010, "523e59338a885da271efad9958adca4a", TRUE, "6c9ed7292739b16e", "5708fd9d", "ba6420913240f920d88b84420cdfb14a" >>,
    << 197758, "5ef6775d124aadf806fdc9e315cbc4ca", TRUE, "1d042f267f1d8ae6", "1bac79f0", "2eadbc03dcc2f54e69ffa8bc2ca3b660" >>,
    << 197993, "6f62017d67dc6c8ced920fdc939d251b", FALSE, "101a83b952d4a62a", "a6ba9970", "c13a6de90d752f235035b0744afdeff9" >>,
    << 201948, "5efb2df1a0de0e5c66c51296a27e3cb0", TRUE, "3e03cbdd72b28231", "3afc2d37", "549609e458cfe524cff0cf23cdedcbb8" >>,
    << 202288, "d926cff70f2368a44f85b75089d55072", TRUE, "2df4e9d3ac35067d", "12a6d043", "acd7f7dcd15f9d5ac8996e0ec9c43bea" >>,
    << 203901, "858b3fb9af1214a75faea07247cf85d4", TRUE, "40a4a77927f26b6d", "e41ff906", "095580038943bbab8d7dd3d4c11ef519" >>,
    << 205693, "500ad580475e7942fc4417f107532a7a", FALSE, "161043135d88946d", "841b6312", "7aaa0a3986d5b49b05e1339880a2495d" >>,
    << 206440, "e9acb06af625d6e6fb874525b3be89fd", TRUE, "7772545d64c31981", "b1f9506d", "4a27a8ef04e9c3c88c022bb1b1a12e90" >>,
    << 207352, "5bde5d75e22c40fa95c10bb547a7ce73", FALSE, "4436a8cfe366cb9d", "d9cd01b1", "54e1c1a547b6301b59b0da71cc6265c7" >>,
    << 207551, "efdc01d90efd7c892c38dad7391292dd", FALSE, "78600fcb07f2266a", "77879e78", "cda86cf93b236d4a6f0cc5d1bcda307d" >>,
    << 213057, "e51bd46d587686af743309ea6bb0c2f1", TRUE, "3166ecd1e97780c0", "2675810e", "4a46fc22b12b62023bb41a62357336d1" >>,
    << 214113, "ec05b29179970943067dd3ff6af1f93d", FALSE, "38185f04f4ceba0", "5570b2ea", "ee540c0eb86674eba3acd619efdfd686" >>,
    << 215122, "395442fe1d4e7686b15af4ec092804fe", FALSE, "19a54651244cbf1c", "5bd9b384", "ae319e4013fc2066fe7554725f25ac26" >>,
    << 218571, "23b3b772ffaa3512d88ca3132453cca0", FALSE, "639856c5db304d29", "42fb7711", "af31086b826475cf3ed12b15e3f94038" >>,
    << 226254, "56463145c67592fc9e7154067a8c233c", TRUE, "7c999170190ce201", "f531a0ce", "7bf1426984048339202ae3aaa7b7a675" >>,
    << 228408, "4e1ee8fc4625ae4f4a0b616085dfd6fc", FALSE, "784ccd497235d07", "f492278c", "47effc175cf1c5d3e957433816e79499" >>,
    << 230499, "b392562494378a48f9f5f7182e0fd862", TRUE, "162b1058470f2a7b", "96d3fae2", "7862d0c7c5c2033307665c7766001368" >>,
    << 230768, "20981d747d12f9f63aeb7670cebe793c", TRUE, "1436054a78fb9da4", "a3c1e21a", "6c753198d5afeaec8778da76c0d09598" >>,
    << 240897, "d7ee4ed4ea1685e9b4108c3b9210f9dc", TRUE, "11fc2c123b6625eb", "d7f7087e", "cbbbd246ff83e5bfed4b18a7430de82a" >>,
    << 241241, "3be038114b8863f2e6053b4d8d2d7a28", TRUE, "289d06ddecd58a9d", "804e2974", "cac9d608cfb93e5a9bfd7bf44fa058ba" >>,
    << 243548, "ac5ab6879e9c7f4d7195bc209ce352d2", TRUE, "505120eed9098a3d", "3edb74ee", "bb695ef48ae235721c08dd6c36c9f21e" >>,
    << 245166, "e4e255285a52bfb004cc63267d5c62c8", FALSE, "3929b4078d46adf2", "98bf85dd", "5a6aea0f18354ed99270af873323ff88" >>,
    << 250333, "9df038cad24ac3ead43a32f36f750ff9", TRUE, "2104f6b00165db88", "30a2df2f", "50c995844cef62439fa409556003afd3" >>,
    << 254560, "0dc32242f3bf02905fbd1ce85623efba", TRUE, "60857de86ec4b616", "714dfc88", "10895d76a649ca0b9f7ea73caae725f7" >>,
    << 263345, "f97e3442ff6827f08ff1a23e402e8933", FALSE, "6ae2e4f2bdd0b721", "f535cfe8", "18d55be6d02c12ca416e7be1a614856d" >>,
    << 263503, "b1e74d4e5000a84e685184ada6331382", TRUE, "36b46a422f1f8f67", "710a79c5", "b1390c22e4acedc29111c3b4d03d399e" >>,
    << 272512, "32edc5219148153ddef7f757c0663e88", FALSE, "6ac34ba37497c137", "88b4b831", "abbef44ff0bd22806ab438e184f40ca2" >>,
    << 274781, "375ab3a505bde8ee9b2f5de1d949ce5c", TRUE, "2136302ae8fd8345", "724edb84", "295a5fc456ad108f996412cd507cbd92" >>,
    << 275855, "f932a4679fd7bac51d0421b5c87731e9", TRUE, "7bfe720221e1343b", "d759c5c1", "559e7f9e6b3a67da4bf1d8b2a414b11c" >>,
    << 288111, "84ba5ef2a7858768327038995a8f79ea", FALSE, "3a7225a4b6ff2f85", "6798b94f", "4f08f8fba84790bd0cfb8860a94d4554" >>,
    << 288139, "d5c06727fe2c1081bc13d7c9cab54361", FALSE, "1650d5aaa4812deb", "e0adbc3c", "fccbab1df93739c3fef6d52c12a11f00" >>,
    << 288179, "ee008ffe3ff72f56ab0f406e421eef90", TRUE, "71e312bc121ced0b", "f0dfde96", "58c9d3fe73abeb3f8dced075c0c8f6dc" >>,
    << 288271, "4bba0c39730bfdb1238ed6a4b828e555", FALSE, "13cb5083a582dd57", "317ff8c7", "5ff2084f78c228c9c3adaf7325e2d0f8" >>,
    << 288372, "58cc24236bac6a4a9cfc4406f6355c05", TRUE, "f85707e06a53f5", "2c0d16b2", "6e55ab493ef690869202a1afe72a60d3" >>,
    << 288386, "47e653a275539747cec667e46211673e", TRUE, "7b4e1a2cb7f13bc4", "b0d325ef", "842acc5da4d2a28a4c585e7277527722" >>,
    << 288513, "da578ffb92e6f2b9262427532ead5387", TRUE, "cf647211234ebcf", "980e20fd", "3aed28b37449ebf23427abe367a2b799" >>,
    << 288611, "da85c44d17c6c3e18dbd1c8d4e467fb9", TRUE, "7b0d4a2342a802e3", "a796e298", "6e70d217c2ba348274d52225403a6882" >>,
    << 288654, "972fab27bfaa5779a0c8e815b219ac7d", TRUE, "62316dbd5f1e5bd1", "aa4db261", "f103bd5ac28dd12d7d01417e2f79eb2a" >>,
    << 288736, "99072960a62d7f4bb5ce2d6838bede6d", TRUE, "4ede43ec89e9b5e3", "a9ee38d9", "8883a96a72bfdb9250308565b1c80a74" >>,
    << 288826, "7ab848fcf9b741025ff209a6def1520f", FALSE, "4a12dee88ae84df1", "754159e4", "b84beaff702a009b10a1178729cdef61" >>,
    << 288873, "ddcd1ee1e49ccbf82ce0bafc51547e21", TRUE, "73af18427ed1a490", "1bdd129f", "5aefb2b93d82dcd7d155de249c4bb555" >>,
    << 288948, "e6630a1a6b97d8323879f7e22b36e759", TRUE, "46127acef31f4de9", "536dfda9", "2a3a0fbe2632ae787cd93c23aabfb9d4" >>,
    << 288981, "2ce695590edf6c18b53c25eb418f496c", TRUE, "51fb3a74e545dc4e", "775a913b", "597c22821bbf7e3cddc44cf8327c9ace" >>,
    << 288988, "a66d4c1a887f3e3b1f24507ad0c9ddce", FALSE, "264739f5c6818db7", "c4c724ff", "471b102ed7fda71e48134ed0eaebe219" >>,
    << 289012, "025151c33ba1fb29dd412139064b5bd5", FALSE, "475018e8931125ea", "6dad6493", "6c1edde516b802ba4be75dd081a35d94" >>,
    << 289061, "b2990a8c03029ee5ff75a1025b166a34", FALSE, "7bfed48ead262aea", "996a4e20", "00cee5fba0a06d60818b5b4546391d90" >>,
    << 289076, "f6003784807062cc6bbf6a4fe90e1a67", FALSE, "5096ed1089e28396", "680b4155", "7cbe47f31650e51f78eb4d8dbc382f47" >>,
    << 289102, "367c2e1ea1fe08215b67a745596bea37", TRUE, "5b7ba2bc5831fc2e", "82ed165c", "cbc9af9359b4adf18acd94761a0493fe" >>,
    << 289131, "79ac05d6731bf75f264f2a9ad3f871b6", TRUE, "d2d02156a989502", "929996b0", "b00a051560f7cd588bd58a3086794634" >>,
    << 289142, "82764b3f0fd18133c88279983b95520e", TRUE, "57b264f31d72dca6", "426a7479", "18f245493727ad3cb04217f74d7e8b87" >>,
    << 289259, "b20ed3e5edc138dcbaf21428861b23d0", TRUE, "56b4abd8a0bbae23", "e34308b8", "d6f49feed8c67cbe858310bfc80f2d71" >>,
    << 289390, "38685376bcb3da2ae5493dff5354d363", TRUE, "685c9fbfbe294280", "99469f5d", "e9d58bbdc398cc76d8a435d596d28a20" >>,
    << 289577, "26c33750b1ed2a226d58048e14c69e90", FALSE, "5d844b1baee198cb", "ac26eab9", "c48ef3f907279a584c16514d8238d3c1" >>,
    << 289679, "6b53e33495f90db438a0646741712e3d", FALSE, "5ee402d41ae9ee5a", "9d1b8c13", "206cfa8c55e01277ff84c6a5ac659a3c" >>,
    << 289694, "28ea91dfd8d45391b871c159fb5a6b9f", TRUE, "730401a2b4f92b0d", "3fc9fa72", "7877dc40ac3f7bcc0932e776d5f90f27" >>,
    << 289717, "8db6813edb76ea93bd08b15f7472460d", FALSE, "46b93e3debd66d7e", "f0c228db", "b4a23a70e1fe696a395ee62afe8febe2" >>,
    << 289835, "50cc1695e43ee8afcd5330580d253fdb", FALSE, "48c8e08c3ddecd82", "67fc918c", "f5baf9bc2a7b348db41d068c2c2a3679" >>,
    << 289883, "7ec9b06d98938731678abbd77338c2ba", FALSE, "6e53375a65275817", "a08fdcd9", "d4379e32ecf29b378c9272aa6bbcba01" >>,
    << 289918, "19a2aef582cd3ce89f0637ef52da01e4", TRUE, "7056925589106c0c", "bb33b3b2", "9567ee64a7c5162546770349a3eff81c" >>,
    << 289926, "9f9017907c459e1d8764773eaa22cda5", FALSE, "3192bb52af87a949", "c88b5675", "f6928205aa16817d7ace3ed05d20fd88" >>,
    << 289969, "4ec5fc48e146428cfd0d7e0be67dc2e9", FALSE, "3707df2f9911bbcf", "a320be9b", "f48631f3a47c73ef26652db646faff61" >>,
    << 290052, "4ed196aad33f36434e0f266258b7fbab", TRUE, "630966d8d0c8ceab", "254f903b", "bc8bd9565b0d0f4ce0ff6e0803cda877" >>,
    << 290096, "b317b9a5429e471140519d4ca25d93f8", TRUE, "4387e98ecc8bb577", "8d7465a5", "b4fa12b91b1d4ea38cdefba93c4664b4" >>,
    << 290179, "6ef61cb28f1d5a3067ae0b31ac974777", TRUE, "3990e7d350db040", "51143d8", "a94d3151c9d8ffa4e9df312636b86792" >>,
    << 290203, "b907c1aacfd856e104d6d46369c1564b", TRUE, "11654f5770614d82", "d8948f4c", "08c365947924965fe6fc07c66059a38e" >>,
    << 290221, "174019c928916dae4fd9fba1240093e8", FALSE, "5c0f9e18e23541d", "d11b9295", "0a59ecd2ebca57de896717c99ce84b0e" >>,
    << 290296, "53b33dd5eff2ae5fae0027c25e3c08b3", FALSE, "67be389ce9e31dc1", "89d603c1", "1c54034ec4453507acc306ee273f98c3" >>,
    << 290329, "a6e1f794ab63b5e908ed4bf40e893960", TRUE, "72b0382aa490d271", "f89384c8", "3335fb21654945a0033bae9dfc3bcfe5" >>,
    << 290478, "4942145ea3da3a028fc84162bc3ee086", TRUE, "188b88abb8762d7a", "24869e45", "374010a179af63cd7c64d805219dbab8" >>,
    << 290603, "7ff8dcaf0e8dbb731d6c9ecc8c24290e", TRUE, "4c5330081fcf1cd7", "3653f010", "cb6ccabd46193ddcf6a2e4c26ff6d47e" >>,
    << 290736, "b277d79f80c7cc96495103cfd0fe800b", TRUE, "758a4e6bb11bd710", "36d6cb5a", "854f6db147888930ae3e184484ab424f" >>,
    << 290745, "8fed21b22d421f68aabba2bf51547c46", FALSE, "74a645117a3b700", "7fd5765d", "9501a9979e1a87dd9b6c27e9a925e3cd" >>,
    << 290761, "f3127309c34fb37eea165e60a117cb38", TRUE, "59067787603aaaa7", "c211d437", "fbca0a794055d40b10b098663ed6bc1e" >>,
    << 290875, "87e05080c8c6d0efa1726eba8cada270", FALSE, "ec932c6078f8876", "6b82aad4", "d74c427dac5e0f0552aac7787e18ce75" >>,
    << 290995, "faf84cb1bf6852310c706fc77f57616f", TRUE, "23adb817b54a6c4e", "5b415da1", "a857aab551a74a34d190b3d254c78ec1" >>,
    << 290996, "b87f47d6057f847610dc05d2113cc509", FALSE, "5df1208ddc482d8d", "9d9a8302", "259bba36fa502f15b8c3973eb264f8d1" >>,
    << 291034, "7d18e428df195fb1092beddf258050bc", TRUE, "58635c45a666ee68", "f7f2e32a", "8b61119b4629081bb79aa8485ae28dea" >>,
    << 291089, "c27a93b5fee8b1860e6e02ab7528fb34", FALSE, "282f1cf33423b4d2", "8276600b", "e298c594bba32b74ce21364b4bc4af78" >>,
    << 291146, "6b067864fc6ad24f117f28f8a71a5774", FALSE, "63785974ebc771a", "9e8324cb", "c5e7a510b6bee7a300bf78af2039526c" >>,
    << 291161, "3873244a6e0aa1de97787b3eda18be56", TRUE, "6b939c0dc97835da", "a020e014", "b995710ddc4ff5f644ce57dfb8f0a7fc" >>,
    << 291169, "ebf302dc0f7e83db96a1b97eee19f3e3", TRUE, "46584fb138ab367e", "76f6d36f", "068eb133187ac9e37c439e75338a6d88" >>,
    << 291463, "513305532ca61a7dd56622a7c9015da0", TRUE, "779f430b30b94478", "7ce7f79f", "6791dc1abcf2f735b616a77861699f7c" >>,
    << 291707, "a4e24c01857e288ce0a1d29ddafdc4f4", TRUE, "7dc6091baafc5563", "6fdd5007", "168622ce0f5c0ab7202b927c9038363d" >>,
    << 291752, "61744ab9366d00346d9575287d83dea2", TRUE, "3354479afbc33b2e", "98987a0", "eeef0dc73c09e7e0a5d8f0ea485d8810" >>,
    << 292173, "40400d8e535822eb5d77868b399dd9a9", FALSE, "7415c641610bcf08", "6c484cd8", "4e5774cfbbc1087cc1027578c44187c5" >>,
    << 292450, "394c4e8fc535a8fbb08540f799a2d3f4", FALSE, "76b20ff58a94964a", "494a1a4f", "416741fad062adf81200349ac3f562a0" >>,
    << 292582, "7056d48b444880dea96fa78fa92c387d", TRUE, "203435014ef2f7f5", "94a5fb11", "b40ba7e4eac3483be58116c61331efcf" >>,
    << 292836, "828c066de73d84628194bca6f8371ece", FALSE, "26ea7bdbc5790d26", "955dd83b", "ddc69d2778bcb6fc98e08749982b349e" >>,
    << 293014, "38050361458a935528e91a2856a18003", TRUE, "6f3c194d518ee290", "95a0405d", "616f2752845e5d935313b6f574e812b9" >>,
    << 293116, "e7202ed69f37acc96b632a144b1304d4", FALSE, "16f870b136e8cf06", "3ed9333", "cda173a08eb71973e4c8760b6c972b5e" >>,
    << 293448, "c7f423e5ed1cdaf9e932af543520d10b", TRUE, "5fa9da6b58800d04", "b92a9211", "6d01072d3144d062a7ac192e0dc06e73" >>,
    << 293677, "d9720011338e75f72ec4a4c936cc6bd0", TRUE, "34c3353156b3e9ae", "22306608", "1e35f470fd6690903b3d33ec550bd282" >>,
    << 294234, "02fbc1b46d62c8cd17b2609b5eb26b3f", TRUE, "2aef1c40f8aa6e4d", "d4901350", "1a64710308040268e73f206b772c36ee" >>,
    << 294242, "fd78291c4504d01ea590ddbf524b0f71", FALSE, "619400c5af9d3d8b", "b844e34b", "ff0d8a2d9dd4dd0a770da300c864db60" >>,
    << 294286, "8598cf012d6865f9bcdb52797588af19", FALSE, "519caf96892988e", "94162118", "fc66dd587ecc4e819d9cb7a753ec7f54" >>,
    << 294435, "2099ee7dc7dae3a0d3eb371cf8e0f57b", FALSE, "70b002c79f8011ba", "69d33252", "1c2a4e41388106d7e6bbc035d02deb4c" >>,
    << 294585, "befa76ba95b111de0da76e14321791ff", FALSE, "2d122fc53be2ce9c", "47106cc4", "ef14633f1b6811b2ef3efa2275b166f2" >>,
    << 295305, "5d223890e039c72c8208d861d4479987", TRUE, "1054d26269cd9e19", "1b26ac31", "aea8e10845cbc0a3e3c80379721374ee" >>,
    << 296179, "9c3b99e5987c3cbe38c095d8ec795de5", FALSE, "51d8d4cf0f6f41b", "41bf79a7", "30f8abcf43dd7a39627750e293e4c55e" >>,
    << 296243, "011bceb01846fa3bab7904897ca2fbd4", TRUE, "465036b66aafc4c9", "6e0ea75", "ee4c9b28fbf415d8954776751c699db0" >>,
    << 296366, "31b3a37c2c8a0e8e45a82ad958b3f5a6", TRUE, "1f952a49ad4f3158", "cf6ea6f3", "5f9833037ed4a9f64f9245c7d6bc0409" >>,
    << 296549, "1bca5cd4220a7d10157be00c550a8352", TRUE, "49e598edd7e19ae3", "ade3f86c", "cf9f2e77df78a9f745a61a4340fe4e90" >>,
    << 296636, "274b84e81fce64217d467a457cbb95fa", TRUE, "36006a878bb7bc57", "d2ebafd6", "7288a6b2cb2dd02a07231e28f59f14c0" >>,
    << 297849, "7c7961558374d7800c65797430485666", TRUE, "41e79caa88d5d917", "50e2b058", "c60a4df823154027c7706ee0a86c840b" >>,
    << 298818, "8ff15af2601610e3b99767099c641c94", FALSE, "10a42c9c2dfc2bd5", "7c3f7cd5", "7f0d2dbca8b53b81dddcdc8b3d122757" >>,
    << 300490, "02bb020b5e6439fc1d5a044214bc7532", TRUE, "28f7dd516654f4e7", "e1a24662", "0131c4faefe6e1b7c65e52b2a8734381" >>,
    << 301408, "365e4917219dcf296c083b1b4713c410", FALSE, "4a45b97fb91185a4", "cfc5740a", "8f1d272ebb604077216dd0bd2155e91c" >>,
    << 304014, "5e4f23f90ededf1223f5c39de182896a", TRUE, "175874004d48f79", "2b7ed58", "d7dcb88d52f591e90e30750259b5f9d1" >>,
    << 308227, "7b688c9a6f0366a31657bfcbb41ade16", FALSE, "285966057c4c6b55", "95c773df", "c8a3363d936bc7f78e6625fdbf91cdc3" >>
    >>
\* END SATURATING

RowUrl(r) == "https://example.com/" \o ToString(r[1])

\* hashed[:7]
RowShort(r) == Take7(r[2])

\* SimpleBloomFilter._hashes of the row's short
RowHashes(r, size) ==
    << (LET m == HexMod(r[4], size) IN IF r[3] THEN (size - m) % size ELSE m),
       HexMod(r[5], size),
       HexMod(r[6], size) >>

\* the slots of each row's short, computed once
RowSlots == [i \in 1..Len(SaturatingRows) |-> RowHashes(SaturatingRows[i], BloomSize)]

RECURSIVE FirstSetter(_, _)
\* for each slot the shorts of rows lo..hi set, the first of these rows that sets it
FirstSetter(lo, hi) ==
    IF lo = hi
      THEN [slot \in {RowSlots[lo][k] : k \in 1..Len(RowSlots[lo])} |-> lo]
      ELSE FirstSetter(lo, (lo + hi) \div 2) @@ FirstSetter(((lo + hi) \div 2) + 1, hi)

SlotSetter == FirstSetter(1, Len(SaturatingRows))

\* each row's short has a slot no earlier row's short set: the filter reports it
\* absent when its turn comes and its allocation returns it without a rehash
RowsAllocate ==
    \A i \in 1..Len(SaturatingRows) :
        \E k \in 1..Len(RowSlots[i]) : SlotSetter[RowSlots[i][k]] = i

RECURSIVE MapOf(_, _)
\* InMemoryDB.map after the allocations of rows lo..hi
MapOf(lo, hi) ==
    IF lo = hi THEN RowShort(SaturatingRows[lo]) :> RowUrl(SaturatingRows[lo])
    ELSE MapOf(((lo + hi) \div 2) + 1, hi) @@ MapOf(lo, (lo + hi) \div 2)

\* InMemoryDB.map after the allocations of all rows
SaturatedMap == MapOf(1, Len(SaturatingRows))

\* SimpleBloomFilter.bit_array after them
SaturatedBits == UNION {BloomAdd({}, RowSlots[i]) : i \in 1..Len(SaturatingRows)}

\* what the allocations by HashShortener("md5") returned
SaturatingAllocs ==
    {[n |-> i, strat |-> "md5", url |-> RowUrl(SaturatingRows[i]),
      code |-> RowShort(SaturatingRows[i]), empty |-> i = 1, inst |-> 1] :
        i \in 1..Len(SaturatingRows)}

\* URLShortener(HashShortener("md5")) after shorten was called with each row's long
\* URL, one call after the other
InitSaturated ==
    /\ RowsAllocate
    /\ callers = {"c1"}
    /\ now = 1
    /\ last_timestamp = -1
    /\ sequence = 0
    /\ lock = "free"
    /\ hashseed = 0
    /\ strategy = "md5"
    /\ inst = 1
    /\ map = SaturatedMap
    /\ bit_array = SaturatedBits
    /\ pc = [t \in callers |-> "idle"]
    /\ op = [t \in callers |-> "none"]
    /\ long_url = [t \in callers |-> ""]
    /\ short = [t \in callers |-> ""]
    /\ timestamp = [t \in callers |-> -1]
    /\ started_empty = [t \in callers |-> FALSE]
    /\ ret = [t \in callers |->
                LET r == SaturatingRows[Len(SaturatingRows)] IN
                    [op |-> "shorten", url |-> RowUrl(r), code |-> RowShort(r), num |-> -1]]
    /\ ops = 0
    /\ issued = << >>
    /\ allocs = SaturatingAllocs
    /\ added = DOMAIN SaturatedMap
    /\ first = SaturatedMap
    /\ writers = {"md5"}

\* the filter has no bit left to set: contains() is true of every value
Saturated == bit_array = 0..(BloomSize - 1)

\* HashAccept is not listed: db.exists is true of every short here (Saturated is an
\* invariant of SpecSaturated), so it is never enabled.
NextSaturated ==
    \/ \E t \in callers, url \in Targets : CallShorten(t, url)
    \/ \E t \in callers : HashCollide(t)
    \/ \E t \in callers, s \in Methods : SetStrategy(t, s)

SpecSaturated == InitSaturated /\ [][NextSaturated]_vars

(* ------------------------------- claims ------------------------------- *)

IssuedIds == {issued[i].id : i \in 1..Len(issued)}

\* C1: all IDs one generator returned are pairwise distinct, however many calls
\* read the same millisecond.
C1_IdsPairwiseDistinct == Cardinality(IssuedIds) = Len(issued)

\* C2: in call order the IDs of one generator never decrease (stated on each
\* call and the next one; by transitivity that is every ordered pair of calls).
C2_IdsNonDecreasing ==
    \A i \in 1..(Len(issued) - 1) : issued[i].id <= issued[i + 1].id

\* C3: of two calls that read the same millisecond the later one returns the
\* strictly greater ID (calls of one millisecond are consecutive, so again each
\* call and the next one).
C3_StrictWithinMillisecond ==
    \A i \in 1..(Len(issued) - 1) :
        issued[i].ts = issued[i + 1].ts => issued[i].id < issued[i + 1].id

\* C4: the long URL of a stored short never changes: get(short) is still the
\* long URL first saved under it.
C4_TargetNeverChanges == \A c \in DOMAIN first : Get(map, c) = first[c]

\* C5: the membership index has no false negatives: every value ever added is
\* reported present.
C5_NoFalseNegatives == \A v \in added : Exists(v)

C5_Witness ==
    /\ Cardinality(added) >= 2
    /\ \A t \in callers : Idle(t)
    /\ \A v \in added : Exists(v)

HashAllocs == {a \in allocs : a.strat \in Methods}

\* C6: two hash allocations on one store never return the same short, also when
\* they run concurrently (the check-then-insert sequence is atomic).
C6_HashAllocsNeverShareACode ==
    \A a, b \in HashAllocs : a.n # b.n => a.code # b.code

\* C7: right after an allocation returns, by either strategy, resolving the
\* returned short gives the long URL that was allocated.
C7_RoundTrip ==
    \A t \in callers :
        (Idle(t) /\ ret[t].op = "shorten") => Get(map, ret[t].code) = ret[t].url

C7_Witness ==
    /\ \E t \in callers :
          Idle(t) /\ ret[t].op = "shorten" /\ Get(map, ret[t].code) = ret[t].url
    /\ \E a, b \in allocs : a.strat = Snow /\ b.strat \in Methods

\* C8: the allocations of one SnowflakeShortener return pairwise distinct shorts.
C8_SnowflakeCodesDistinct ==
    \A a, b \in allocs :
        (a.strat = Snow /\ b.strat = Snow /\ a.inst = b.inst /\ a.n # b.n)
            => a.code # b.code

\* C9: a hash allocation that begins on an empty store returns the first 7
\* symbols of the digest of the long URL under its method: a function of method
\* and long URL alone, the same on every fresh store and in every process.
C9_EmptyStoreCode ==
    \A a \in HashAllocs : a.empty => a.code = Take7(HashOf(a.strat, a.url))

C9_Witness ==
    \E a \in HashAllocs :
        /\ a.empty
        /\ a.code = Take7(HashOf(a.strat, a.url))
        /\ \A t \in callers : Idle(t)

\* C10: with one hash method, allocating the same long URL twice on the same
\* store returns the same short both times.
C10_SameUrlSameCode ==
    \A a, b \in HashAllocs :
        (a.strat = b.strat /\ a.url = b.url) => a.code = b.code

\* C11: every code returned by the hash allocator has exactly 7 symbols, whatever the
\* target, the digest method (md5, sha1, crc32) and the path (first candidate or rehash).
\* zlib.crc32 is formatted with format(x, "x"), which does not pad: a checksum below
\* 16^6 gives fewer than 7 symbols and hashed[:7] returns all of them.
C11_CodeHasSevenSymbols ==
    \A a \in HashAllocs : Len(a.code) = CodeLen

\* C12: after any sequence of hash allocations of pairwise distinct long URLs made one
\* after the other on one store (nothing else has written to it), the codes returned
\* are pairwise distinct and each code resolves to its own long URL.
C12_DistinctTargetsDistinctCodes ==
    (/\ writers \subseteq Methods
     /\ \A a, b \in HashAllocs : a.url = b.url => a = b)
        => /\ \A a, b \in HashAllocs : a # b => a.code # b.code
           /\ \A a \in HashAllocs : Get(map, a.code) = a.url

\* two distinct long URLs allocated, the second one through the rehash
C12_Witness ==
    /\ writers \subseteq Methods
    /\ \E a, b \in HashAllocs :
          /\ a.url # b.url
          /\ a.n < b.n
          /\ b.code # FirstCandidate(b.strat, b.url)
          /\ Get(map, a.code) = a.url
          /\ Get(map, b.code) = b.url

\* C13: resolving a short that was never written to the store returns None (and
\* returns: no error), whatever the store holds; on a store just constructed that is
\* every short.
C13_NeverWrittenResolvesToNone ==
    \A t \in callers :
        (Idle(t) /\ ret[t].op = "resolve" /\ ret[t].code \notin DOMAIN first)
            => ret[t].url = None

\* a short never written, resolved on a store that holds other shorts
C13_Witness ==
    \E t \in callers :
        /\ Idle(t)
        /\ ret[t].op = "resolve"
        /\ ret[t].code \notin DOMAIN first
        /\ DOMAIN map # {}
        /\ ret[t].url = None

\* C14: set_strategy replaces only the strategy: the store is as it was, so a code
\* allocated before the switch still resolves to its long URL after the switch and
\* after further allocations under the new strategy (no caller saves directly).
\* A new SnowflakeShortener owns a new Snowflake, which starts again at sequence 0:
\* in the millisecond the old one last served it returns an ID the old one returned.
C14_EarlierCodesSurviveSwitch ==
    "save" \notin writers
        => \A a \in allocs : a.inst < inst => Get(map, a.code) = a.url

\* the alphabet 0-9a-zA-Z; a symbol's digit value is its position, from 0
C15_Alphabet == "0123456789abcdefghijklmnopqrstuvwxyzABCDEFGHIJKLMNOPQRSTUVWXYZ"

C15_IsDigit(ch) == \E i \in 1..Len(C15_Alphabet) : SubSeq(C15_Alphabet, i, i) = ch

C15_DigitValue(ch) ==
    (CHOOSE i \in 1..Len(C15_Alphabet) : SubSeq(C15_Alphabet, i, i) = ch) - 1

RECURSIVE C15_Evaluate(_, _, _)
\* the numeral s read most-significant symbol first, from symbol i on
C15_Evaluate(s, i, acc) ==
    IF i > Len(s) THEN acc
    ELSE C15_Evaluate(s, i + 1, acc * Len(C15_Alphabet) + C15_DigitValue(SubSeq(s, i, i)))

\* C15: base62_encode(n) is the canonical base-62 numeral of n over 0-9a-zA-Z, most
\* significant symbol first: "0" for 0, otherwise no leading "0", and evaluating it
\* with digit values 0..61 gives n back (so two integers never share a numeral).
C15_CanonicalNumeral ==
    \A t \in callers :
        ret[t].op = "encode" =>
            LET n == ret[t].num
                s == ret[t].code
            IN  /\ Len(s) >= 1
                /\ \A i \in 1..Len(s) : C15_IsDigit(SubSeq(s, i, i))
                /\ n = 0 => s = "0"
                /\ n > 0 => SubSeq(s, 1, 1) # "0"
                /\ C15_Evaluate(s, 1, 0) = n

\* a numeral of several symbols that contains the symbol "0"
C15_Witness ==
    \E t \in callers :
        /\ ret[t].op = "encode"
        /\ ret[t].num = 3844
        /\ ret[t].code = "100"

RECURSIVE LoopResult(_, _)
\* where the collision loop stops when it starts at candidate c on filter bits
LoopResult(c, bits) ==
    IF BloomContains(bits, Slots(hashseed, c)) THEN LoopResult(Rehash(c), bits) ELSE c

\* the short HashShortener(method) returns for long_url on the store as it is now
ShortFor(method, url) == LoopResult(FirstCandidate(method, url), bit_array)

\* a caller of a hash allocation whose loop has ended and whose save has not finished
\* (one caller: the filter is still the one the call found)
Chosen(t) ==
    /\ op[t] = "shorten"
    /\ strategy \in Methods
    /\ pc[t] \in {"save_map", "save_bloom"}

\* C16: a HashShortener built with a method name _hash does not know raises nothing
\* and behaves as HashShortener("md5"): for every long URL and every store state its
\* call ends with the short the md5 allocator's call ends with.
C16_UnknownMethodIsMd5 ==
    \A t \in callers :
        (Chosen(t) /\ strategy \in {"md5", "sha256"})
            => short[t] = ShortFor("md5", long_url[t])

\* the unknown method on a store where the md5 first candidate is taken
C16_Witness ==
    \E t \in callers :
        /\ Chosen(t)
        /\ strategy = "sha256"
        /\ pc[t] = "save_bloom"
        /\ short[t] # FirstCandidate("md5", long_url[t])
        /\ Get(map, short[t]) = long_url[t]

\* C17: every ID generate() returns has the sequence counter of its call in its low 12
\* bits and the millisecond its call read in the bits above, and the sequence counter
\* stays within 0..4095.  (The counter of the last call is still in self.sequence
\* while no caller is inside generate.)
C17_IdLayout ==
    /\ sequence \in 0..(2^SeqBits - 1)
    /\ \A i \in 1..Len(issued) : issued[i].id \div 2^SeqBits = issued[i].ts
    /\ (lock = "free" /\ issued # << >>)
          => issued[Len(issued)].id % 2^SeqBits = sequence

RECURSIVE Rejected(_, _)
\* the candidates the collision loop went through from c before it reached stop
Rejected(c, stop) == IF c = stop THEN {} ELSE {c} \cup Rejected(Rehash(c), stop)

\* C18: the hash allocator takes the filter's answer as advice only: it rejects and
\* rehashes a candidate only when the store itself holds that candidate, so a false
\* positive of the filter never changes the code returned.
\* get_shortened_url asks db.exists alone, which asks the filter alone.
C18_RejectedOnlyIfStored ==
    \A t \in callers :
        (op[t] = "shorten" /\ strategy \in Methods /\ pc[t] \in {"hash_check", "save_map"})
            => \A c \in Rejected(FirstCandidate(strategy, long_url[t]), short[t]) :
                   c \in DOMAIN map

\* the chain's step: the first 7 symbols of md5(c + "unique")
C20_Step(c) == SubSeq(Md5Hex(c \o "unique"), 1, 7)

RECURSIVE C20_Tried(_)
\* the chain from c up to and including its first element the filter reports absent
C20_Tried(c) ==
    IF BloomContains(bit_array, Slots(hashseed, c)) THEN {c} \cup C20_Tried(C20_Step(c))
    ELSE {c}

RECURSIVE C20_FirstAbsent(_)
\* the first element of the chain from c the filter reports absent
C20_FirstAbsent(c) ==
    IF BloomContains(bit_array, Slots(hashseed, c)) THEN C20_FirstAbsent(C20_Step(c))
    ELSE c

\* C20: a hash allocation returns the first element of the chain c0 = digest(long
\* URL)[:7], c(i+1) = md5(c(i) + "unique")[:7] that the filter reports absent when the
\* call is made: the loop's candidate is always one of the chain's elements up to
\* that one, the loop ends with exactly that one, and that one is saved with the long
\* URL.
C20_FirstAbsentOfChain ==
    \A t \in callers :
        (op[t] = "shorten" /\ strategy \in Methods) =>
            LET c0 == FirstCandidate(strategy, long_url[t]) IN
                /\ pc[t] = "hash_check" => short[t] \in C20_Tried(c0)
                /\ Chosen(t) => short[t] = C20_FirstAbsent(c0)
                /\ pc[t] = "save_bloom" => Get(map, short[t]) = long_url[t]

\* the third element of a chain is chosen and saved: the first two were reported present
C20_Witness ==
    \E t \in callers :
        /\ Chosen(t)
        /\ pc[t] = "save_bloom"
        /\ LET c0 == FirstCandidate(strategy, long_url[t]) IN
              /\ short[t] = C20_Step(C20_Step(c0))
              /\ c0 \in DOMAIN map
              /\ C20_Step(c0) \in DOMAIN map
        /\ Get(map, short[t]) = long_url[t]

RECURSIVE Ahead(_)
\* the candidates the collision loop can still come to from c
Ahead(c) == {c} \cup (IF Rehashable(c) THEN Ahead(Rehash(c)) ELSE {})

\* C19: every hash allocation returns: in every store state earlier allocations can
\* leave, the collision loop comes, after finitely many rounds, to a candidate the
\* filter reports absent.
\* Every allocation sets a bit that was not set (its short was reported absent), so
\* after at most 10000 allocations on a store every bit is set and contains() is true
\* of every value.
C19_LoopReachesAbsentCandidate ==
    \A t \in callers :
        pc[t] = "hash_check" => \E c \in Ahead(short[t]) : ~Exists(c)

\* a caller between reading the clock and computing the packed ID
InGenerate(t) == pc[t] \in {"gen_read", "gen_seq", "gen_last", "gen_pack"}

\* C21: generate() is an atomic critical section.  At most one caller at a time is
\* between reading the clock and packing the ID, and it holds the lock; while a caller
\* is in there, sequence and last_timestamp change only by that caller's own steps,
\* so when it packs, last_timestamp is the millisecond it read and sequence is the
\* value it wrote.
C21_GenerateIsAtomic ==
    /\ [](\A t, u \in Threads : (InGenerate(t) /\ InGenerate(u)) => t = u)
    /\ [](\A t \in Threads : InGenerate(t) => lock = t)
    /\ [](\A t \in Threads : pc[t] = "gen_pack" => last_timestamp = timestamp[t])
    /\ [][\A t \in Threads :
            (InGenerate(t) /\ pc'[t] = pc[t])
                => (sequence' = sequence /\ last_timestamp' = last_timestamp)]_vars

\* one thread is about to pack its ID while the other waits for the lock, in a
\* millisecond the generator has already served
C21_Witness ==
    /\ pc["c1"] = "gen_pack"
    /\ pc["c2"] = "gen_lock"
    /\ sequence >= 1
    /\ Len(issued) >= 1

\* C22: under fair scheduling every generate() call of either thread eventually
\* returns its ID, and no deadlock is reachable: whenever a thread waits for the lock,
\* the lock is free or its holder is another thread inside the body of generate(),
\* which releases it when it returns.
C22_EveryCallReturns ==
    /\ [](\A t \in Threads :
            pc[t] = "gen_lock"
                => (lock = "free" \/ (lock \in Threads \ {t} /\ InGenerate(lock))))
    /\ \A t \in Threads :
            (pc[t] = "gen_lock") ~> (pc[t] = "idle" /\ ret[t].op = "generate")

\* a thread waits for the lock that the other thread took for its second call
C22_Witness ==
    /\ pc["c2"] = "gen_lock"
    /\ lock = "c1"
    /\ ret["c1"].op = "generate"
    /\ Len(issued) = 1

\* C23: each generate() call increments the sequence counter by exactly 1 when the
\* timestamp it read equals the last recorded timestamp and resets it to 0 otherwise,
\* and then records the timestamp it read as the last one; each of the two statements
\* leaves the other field alone.  Hence the first ID of a generator and the first ID
\* of every new millisecond carry sequence 0: they are the bare shifted timestamp.
C23_SequenceUpdate ==
    /\ [][\A t \in callers :
            /\ (pc[t] = "gen_seq" /\ pc'[t] = "gen_last")
                  => /\ timestamp[t] = last_timestamp => sequence' = sequence + 1
                     /\ timestamp[t] # last_timestamp => sequence' = 0
                     /\ last_timestamp' = last_timestamp
            /\ (pc[t] = "gen_last" /\ pc'[t] = "gen_pack")
                  => /\ last_timestamp' = timestamp[t]
                     /\ sequence' = sequence]_vars
    /\ [](\A i \in 1..Len(issued) :
            (i = 1 \/ issued[i - 1].ts # issued[i].ts)
                => issued[i].id = issued[i].ts * 2^SeqBits)

\* one generator has issued two IDs in one millisecond and a third in a later one
C23_Witness ==
    /\ Len(issued) = 3
    /\ issued[1].ts = issued[2].ts
    /\ issued[2].id = issued[1].id + 1
    /\ issued[3].ts > issued[2].ts
    /\ sequence = 0

\* the three slots of a value in this process, as a set
C24_SlotsOf(v) == {Slots(hashseed, v)[k] : k \in 1..3}

\* every slot index _hashes computes, for every code and either hash seed, is inside
\* the bit vector
C24_SlotsInRange ==
    \A seed \in HashSeeds : \A v \in Codes : \A k \in 1..3 :
        Slots(seed, v)[k] \in 0..(BloomSize - 1)

\* the values contains is asked about: the codes handed to save and the first
\* candidate of every method and long URL
C24_Probes == SaveCodes \cup {FirstCandidate(m, u) : m \in Methods, u \in Targets}

\* C24: the bit vector of the membership index is monotone and exact about its three
\* slots.  Every slot of every value lies in 0..size-1; no step clears a slot; the only
\* step that sets slots is the add(v) inside save, which sets the three slots of v and
\* no other; contains(v) is true exactly when the three slots of v are set; and an
\* index with no slot set reports every value absent.
C24_BitVectorMonotoneAndExact ==
    /\ [](C24_SlotsInRange /\ bit_array \subseteq 0..(BloomSize - 1))
    /\ [][/\ bit_array \subseteq bit_array'
          /\ bit_array' # bit_array
                => \E t \in callers : pc[t] = "save_bloom" /\ pc'[t] = "idle"
          /\ \A t \in callers :
                (pc[t] = "save_bloom" /\ pc'[t] = "idle")
                    => bit_array' = bit_array \cup C24_SlotsOf(short[t])]_vars
    /\ [](\A v \in C24_Probes \cup added :
            Exists(v) <=> C24_SlotsOf(v) \subseteq bit_array)
    /\ [](bit_array = {} => \A v \in C24_Probes : ~Exists(v))

\* two values were added: a value that was never added has its three slots set by
\* them and is reported present, and another value is reported absent
C24_Witness ==
    /\ Cardinality(added) = 2
    /\ \E v \in C24_Probes \ added : Exists(v)
    /\ \E v \in C24_Probes : ~Exists(v)

\* C25: every code that is a key of the exact store is reported present by the
\* membership index: whenever a caller is about to evaluate db.exists(short) on a key
\* of the map, the three slots of that key are set and the answer is true.
C25_StoredCodeReportedPresent ==
    \A t \in callers :
        (pc[t] = "hash_check" /\ short[t] \in DOMAIN map) => Exists(short[t])

\* a step in which caller t looks something up: a whole resolve call (get_longer_url,
\* get), or one evaluation of db.exists (contains) in the collision loop
C26_Lookup(t) ==
    \/ /\ pc[t] = "idle"
       /\ pc'[t] = "idle"
       /\ ops' = ops + 1
       /\ ret'[t].op = "resolve"
    \/ pc[t] = "hash_check"

\* C26: lookups are read-only.  A resolve call and an evaluation of exists leave the
\* exact store map, the bit vector of the membership index and the state of the ID
\* generator as they were, whether or not the code is found.
C26_LookupsReadOnly ==
    [][\A t \in callers :
          C26_Lookup(t)
              => /\ map' = map
                 /\ bit_array' = bit_array
                 /\ last_timestamp' = last_timestamp
                 /\ sequence' = sequence
                 /\ lock' = lock]_vars

\* a code that was never stored has just been resolved to None on a store that holds
\* a Snowflake allocation, with the generator past its first ID
C26_Witness ==
    \E t \in callers :
        /\ Idle(t)
        /\ ret[t].op = "resolve"
        /\ ret[t].url = None
        /\ ret[t].code \notin DOMAIN map
        /\ map # EmptyMap
        /\ bit_array # {}
        /\ last_timestamp >= 0

====
